---- MODULE Spec2Model ----
(***************************************************************************)
(* Model of the ConnectionManager (utils/connection-manager.ts, stored in  *)
(* src/src/types/index.ts lines 362-540) and of the adapter lifecycle it   *)
(* drives (database/base-adapter.ts and the engine adapters).              *)
(*                                                                         *)
(* JavaScript runs one handler at a time up to its next `await`; every     *)
(* action below is one such run-to-suspension segment.  The outcome of an  *)
(* awaited adapter call (resolve / reject) is chosen by the environment.   *)
(*                                                                         *)
(* Connection ids: 0 is "no id supplied" (config.id falsy), 1 is the id a   *)
(* caller supplies, -k is the k-th value returned by uuidv4().             *)
(* Adapter objects are numbered from 1 (an object that no longer exists    *)
(* frees its number); 0 is null.  Time is counted in milliseconds and      *)
(* advances in TickMs steps.                                                *)
(***************************************************************************)
EXTENDS Integers, Sequences, FiniteSets, TLC

\* ---- bounds of the model ----
MaxUuids == 1
MaxAdapters == 2
MaxTasks == 2
MaxTicks == 1

\* ---- program constants ----
DefaultConnectionTimeout == 300000
Null == 0

\* granularity of the clock: one tick exceeds the default threshold by 1 ms
TickMs == DefaultConnectionTimeout + 1

VARIABLES
    connections,        \* Map<string,{adapter,info}>: id -> entry
    order,              \* insertion order of the Map's keys
    connectionTimeout,  \* private connectionTimeout
    adapters,           \* the DatabaseAdapter objects that still exist
    tasks,              \* in-flight async invocations, one per slot
    now,                \* Date.now()
    uuids,              \* number of uuidv4() values handed out
    event,              \* what the last segment handed to its caller
    backupStorage,      \* Map<string, BackupInfo> of the backup tools
    adapterCalls,       \* number of adapter operations the tools have invoked
    pg,                 \* one PostgreSQLAdapter: its pool, its client, its callers
    instance,           \* one adapter object: its engine, its fields, what it holds open
    args,               \* arguments of the analyzer/adapter method under study
    result              \* what that method returned

registry == <<connections, order, connectionTimeout, adapters, tasks, now, uuids, event>>

others == <<backupStorage, adapterCalls, pg, instance, args, result>>

vars == <<connections, order, connectionTimeout, adapters, tasks, now, uuids, event,
          backupStorage, adapterCalls, pg, instance, args, result>>

Tasks == 1..MaxTasks
CallerIds == {1}
UuidIds == {-k : k \in 1..uuids}
KnownIds == CallerIds \cup UuidIds
DatabaseTypes == {"postgresql", "unknown"}
TimeoutChoices == {DefaultConnectionTimeout, TickMs}

Ids == DOMAIN connections

Idle ==
    [op |-> "idle", pc |-> "idle", id |-> 0, adapter |-> Null, todo |-> <<>>,
     pending |-> {}, failed |-> FALSE, healthy |-> FALSE, scanNow |-> 0,
     scanTimeout |-> 0, snap |-> <<>>, okIds |-> {}]

\* what a segment hands to its caller: nothing, or the result of the call it
\* settles (`call` names that call): a value, or a thrown error
NoValue == [call |-> "", ret |-> Null, error |-> "", bool |-> FALSE, list |-> <<>>]

Resolved(call) == [NoValue EXCEPT !.call = call]

Returned(call, v) == [NoValue EXCEPT !.call = call, !.ret = v]

ReturnedBool(call, b) == [NoValue EXCEPT !.call = call, !.bool = b]

ReturnedList(call, l) == [NoValue EXCEPT !.call = call, !.list = l]

Threw(call, message) == [NoValue EXCEPT !.call = call, !.error = message]

\* the segment ended in an await: nothing has been returned to any caller
Suspended == NoValue

AllIdle == \A t \in Tasks : tasks[t].op = "idle"

\* a new invocation takes the lowest free slot
FreeSlot(t) ==
    /\ tasks[t].op = "idle"
    /\ \A u \in Tasks : u < t => tasks[u].op # "idle"

\* ---- Map primitives ----
HasNever(m, id) == FALSE

Has(m, id) == id \in DOMAIN m

MapSet(m, id, entry) == [k \in (DOMAIN m) \cup {id} |-> IF k = id THEN entry ELSE m[k]]

MapDeleteNothing(m, id) == m

MapDelete(m, id) == [k \in (DOMAIN m) \ {id} |-> m[k]]

OrderSet(o, m, id) == IF id \in DOMAIN m THEN o ELSE Append(o, id)

OrderDelete(o, id) == SelectSeq(o, LAMBDA k : k # id)

\* ---- adapter objects ----
\* An adapter object exists while something refers to it (a registry entry or
\* a suspended invocation) or while it holds an open engine connection.
CanConstruct == Cardinality(DOMAIN adapters) < MaxAdapters

NewAdapterId ==
    CHOOSE a \in 1..MaxAdapters :
        /\ a \notin DOMAIN adapters
        /\ \A b \in 1..(a - 1) : b \in DOMAIN adapters

\* createAdapter(type, config) followed by the call of adapter.connect():
\* `disconnecting` counts the disconnect() calls that have not settled yet
NewAdapter(origin, id) ==
    [state |-> "connecting", origin |-> origin, forId |-> id,
     connectCalls |-> 1, disconnecting |-> 0]

Construct(as, origin, id) ==
    [a \in (DOMAIN as) \cup {NewAdapterId} |->
        IF a = NewAdapterId THEN NewAdapter(origin, id) ELSE as[a]]

ConnectResolved(as, a) == [as EXCEPT ![a].state = "connected"]

ConnectRejected(as, a) == [as EXCEPT ![a].state = "failed"]

InvokeDisconnect(as, a) == [as EXCEPT ![a].disconnecting = @ + 1]

DisconnectResolved(as, a) ==
    [as EXCEPT ![a].state = "disconnected", ![a].disconnecting = @ - 1]

DisconnectRejected(as, a) == [as EXCEPT ![a].disconnecting = @ - 1]

Referenced(m, tk) ==
    {m[id].adapter : id \in DOMAIN m}
        \cup {tk[t].adapter : t \in DOMAIN tk}
        \cup UNION {{p[2] : p \in tk[t].pending} : t \in DOMAIN tk}

\* objects nothing refers to any more are reclaimed, unless still connected
Collect(as, m, tk) ==
    [a \in {b \in DOMAIN as : b \in Referenced(m, tk) \/ as[b].state = "connected"}
        |-> as[a]]

\* nothing called yet on the tools, the adapter or the analyzers
NoCall == [method |-> "", error |-> ""]

\* no adapter object under study
NoInstance == [engine |-> ""]

PgClosed == [pool |-> FALSE, client |-> Null, sessions |-> <<>>, callers |-> <<>>]

InitRest ==
    /\ backupStorage = <<>>
    /\ adapterCalls = 0
    /\ pg = PgClosed
    /\ instance = NoInstance
    /\ args = NoCall
    /\ result = NoCall

InitRegistry ==
    /\ connections = <<>>
    /\ order = <<>>
    /\ connectionTimeout = DefaultConnectionTimeout
    /\ adapters = <<>>
    /\ tasks = [t \in Tasks |-> Idle]
    /\ now = 0
    /\ uuids = 0
    /\ event = NoValue

Init ==
    /\ InitRegistry
    /\ InitRest

\* ---- createConnection ----
ConnectionIdOf(cfg) == IF cfg.id # 0 THEN cfg.id ELSE -(uuids + 1)

CreateStart(t, cfg) ==
    /\ FreeSlot(t)
    /\ cfg.id = 0 => uuids < MaxUuids
    /\ LET connectionId == ConnectionIdOf(cfg) IN
       /\ uuids' = IF cfg.id = 0 THEN uuids + 1 ELSE uuids
       /\ IF Has(connections, connectionId)
          THEN /\ event' = Threw("createConnection", "already exists")
               /\ UNCHANGED <<adapters, tasks>>
          ELSE IF cfg.type = "unknown"
          THEN /\ event' = Threw("createConnection", "Unsupported database type")
               /\ UNCHANGED <<adapters, tasks>>
          ELSE /\ CanConstruct
               /\ adapters' = Construct(adapters, "create", connectionId)
               /\ tasks' = [tasks EXCEPT ![t] =
                     [Idle EXCEPT !.op = "createConnection", !.pc = "connect",
                                  !.id = connectionId, !.adapter = NewAdapterId]]
               /\ event' = Suspended
    /\ UNCHANGED <<connections, order, connectionTimeout, now>>

CreateConnectOk(t) ==
    /\ tasks[t].op = "createConnection"
    /\ LET id == tasks[t].id
           a == tasks[t].adapter
           info == [adapter |-> a, type |-> "postgresql", status |-> "connected",
                    connectedAt |-> now, lastUsed |-> now]
       IN /\ connections' = MapSet(connections, id, info)
          /\ order' = OrderSet(order, connections, id)
          /\ tasks' = [tasks EXCEPT ![t] = Idle]
          /\ adapters' = Collect(ConnectResolved(adapters, a), connections', tasks')
          /\ event' = Returned("createConnection", id)
    /\ UNCHANGED <<connectionTimeout, now, uuids>>

CreateConnectRetry(t) ==
    /\ tasks[t].op = "createConnection"
    /\ adapters' = [adapters EXCEPT ![tasks[t].adapter].connectCalls = @ + 1]
    /\ event' = Suspended
    /\ UNCHANGED <<connections, order, connectionTimeout, tasks, now, uuids>>

CreateConnectFail(t) ==
    /\ tasks[t].op = "createConnection"
    /\ tasks' = [tasks EXCEPT ![t] = Idle]
    /\ adapters' = Collect(ConnectRejected(adapters, tasks[t].adapter), connections, tasks')
    /\ event' = Threw("createConnection", "connect")
    /\ UNCHANGED <<connections, order, connectionTimeout, now, uuids>>

\* ---- getConnection / listConnections / getConnectionInfo ----
GetConnectionTouchAll(id) ==
    /\ IF Has(connections, id)
       THEN /\ connections' = [connections EXCEPT ![id].lastUsed = now,
                                                  ![id].connectedAt = now]
            /\ event' = Returned("getConnection", connections[id].adapter)
       ELSE /\ event' = Returned("getConnection", Null)
            /\ UNCHANGED connections
    /\ UNCHANGED <<order, connectionTimeout, adapters, tasks, now, uuids>>

GetConnection(id) ==
    /\ IF Has(connections, id)
       THEN /\ connections' = [connections EXCEPT ![id].lastUsed = now]
            /\ event' = Returned("getConnection", connections[id].adapter)
       ELSE /\ event' = Returned("getConnection", Null)
            /\ UNCHANGED connections
    /\ UNCHANGED <<order, connectionTimeout, adapters, tasks, now, uuids>>

ListConnections ==
    /\ event' = ReturnedList("listConnections", order)
    /\ UNCHANGED <<connections, order, connectionTimeout, adapters, tasks, now, uuids>>

GetConnectionInfo(id) ==
    /\ event' = Returned("getConnectionInfo", IF Has(connections, id) THEN id ELSE Null)
    /\ UNCHANGED <<connections, order, connectionTimeout, adapters, tasks, now, uuids>>

SetConnectionTimeout(timeout) ==
    /\ connectionTimeout' = timeout
    /\ event' = Resolved("setConnectionTimeout")
    /\ UNCHANGED <<connections, order, adapters, tasks, now, uuids>>

\* ---- the clock ----
Tick ==
    /\ now + TickMs <= MaxTicks * TickMs
    /\ now' = now + TickMs
    /\ event' = NoValue
    /\ UNCHANGED <<connections, order, connectionTimeout, adapters, tasks, uuids>>

\* ---- disconnect ----
DisconnectStart(t, id) ==
    /\ FreeSlot(t)
    /\ IF ~Has(connections, id)
       THEN /\ event' = Threw("disconnect", "not found")
            /\ UNCHANGED <<adapters, tasks>>
       ELSE /\ adapters' = InvokeDisconnect(adapters, connections[id].adapter)
            /\ tasks' = [tasks EXCEPT ![t] =
                  [Idle EXCEPT !.op = "disconnect", !.pc = "disconnect",
                               !.id = id, !.adapter = connections[id].adapter]]
            /\ event' = Suspended
    /\ UNCHANGED <<connections, order, connectionTimeout, now, uuids>>

DisconnectOk(t) ==
    /\ tasks[t].op = "disconnect"
    /\ connections' = MapDelete(connections, tasks[t].id)
    /\ order' = OrderDelete(order, tasks[t].id)
    /\ tasks' = [tasks EXCEPT ![t] = Idle]
    /\ adapters' = Collect(DisconnectResolved(adapters, tasks[t].adapter), connections', tasks')
    /\ event' = Resolved("disconnect")
    /\ UNCHANGED <<connectionTimeout, now, uuids>>

DisconnectFail(t) ==
    /\ tasks[t].op = "disconnect"
    /\ tasks' = [tasks EXCEPT ![t] = Idle]
    /\ adapters' = Collect(DisconnectRejected(adapters, tasks[t].adapter), connections, tasks')
    /\ event' = Threw("disconnect", "disconnect")
    /\ UNCHANGED <<connections, order, connectionTimeout, now, uuids>>

\* ---- disconnectAll ----
\* Array.from(keys()).map(id => this.disconnect(id)): every disconnect(id)
\* runs up to its await of adapter.disconnect() before Promise.all is awaited
RECURSIVE InvokeAll(_, _, _)

InvokeFirst(as, m, keys) ==
    IF keys = <<>> THEN as ELSE InvokeDisconnect(as, m[Head(keys)].adapter)

InvokeAll(as, m, keys) ==
    IF keys = <<>> THEN as
    ELSE InvokeAll(InvokeDisconnect(as, m[Head(keys)].adapter), m, Tail(keys))

DisconnectAllStart(t) ==
    /\ FreeSlot(t)
    /\ adapters' = InvokeAll(adapters, connections, order)
    /\ IF order = <<>>
       THEN /\ event' = Resolved("disconnectAll")
            /\ UNCHANGED tasks
       ELSE /\ tasks' = [tasks EXCEPT ![t] =
                  [Idle EXCEPT !.op = "disconnectAll", !.pc = "all",
                               !.pending = {<<id, connections[id].adapter>> : id \in Ids}]]
            /\ event' = Suspended
    /\ UNCHANGED <<connections, order, connectionTimeout, now, uuids>>

\* what one settled disconnect(id) does to the Promise.all of task t: it
\* rejects on the first rejection and resolves when every promise has resolved
AllSettle(t, p, rejected) ==
    LET rest == tasks[t].pending \ {p}
        settlesNow == /\ ~tasks[t].failed
                      /\ rejected \/ rest = {}
    IN /\ tasks' = [tasks EXCEPT ![t] =
             IF rest = {} THEN Idle
             ELSE [@ EXCEPT !.pending = rest, !.failed = @ \/ rejected]]
       /\ event' = IF ~settlesNow THEN NoValue
                   ELSE IF rejected THEN Threw("disconnectAll", "disconnect")
                   ELSE Resolved("disconnectAll")

DisconnectAllEntryOk(t, p) ==
    /\ tasks[t].op = "disconnectAll"
    /\ p \in tasks[t].pending
    /\ connections' = MapDelete(connections, p[1])
    /\ order' = OrderDelete(order, p[1])
    /\ AllSettle(t, p, FALSE)
    /\ adapters' = Collect(DisconnectResolved(adapters, p[2]), connections', tasks')
    /\ UNCHANGED <<connectionTimeout, now, uuids>>

DisconnectAllEntryFail(t, p) ==
    /\ tasks[t].op = "disconnectAll"
    /\ p \in tasks[t].pending
    /\ AllSettle(t, p, TRUE)
    /\ adapters' = Collect(DisconnectRejected(adapters, p[2]), connections, tasks')
    /\ UNCHANGED <<connections, order, connectionTimeout, now, uuids>>

\* ---- cleanupIdleConnections ----
IdleTime(info, at) == at - info.lastUsed

ToDisconnectAtThreshold(m, o, at, timeout) ==
    SelectSeq(o, LAMBDA id : IdleTime(m[id], at) >= timeout)

ToDisconnect(m, o, at, timeout) ==
    SelectSeq(o, LAMBDA id : IdleTime(m[id], at) > timeout)

\* the body of `for (const id of toDisconnect)` up to the await of
\* disconnect(id): m and as are the registry and the adapters as the segment
\* has left them so far, tk the state of task t
CleanupCall(t, m, as, tk, todo) ==
    /\ tasks' = [tasks EXCEPT ![t] =
          IF todo = <<>> THEN Idle
          ELSE IF Has(m, Head(todo))
          THEN [tk EXCEPT !.pc = "disconnect", !.id = Head(todo),
                          !.adapter = m[Head(todo)].adapter, !.todo = Tail(todo)]
          ELSE [tk EXCEPT !.pc = "notfound", !.id = Head(todo),
                          !.adapter = Null, !.todo = Tail(todo)]]
    /\ adapters' = Collect(IF todo # <<>> /\ Has(m, Head(todo))
                           THEN InvokeDisconnect(as, m[Head(todo)].adapter)
                           ELSE as,
                           m, tasks')
    /\ event' = IF todo = <<>> THEN Resolved("cleanupIdleConnections") ELSE Suspended

CleanupStart(t) ==
    /\ FreeSlot(t)
    /\ CleanupCall(t, connections, adapters,
                   [Idle EXCEPT !.op = "cleanupIdleConnections", !.scanNow = now,
                                !.scanTimeout = connectionTimeout, !.snap = connections],
                   ToDisconnect(connections, order, now, connectionTimeout))
    /\ UNCHANGED <<connections, order, connectionTimeout, now, uuids>>

CleanupDisconnectOk(t) ==
    /\ tasks[t].op = "cleanupIdleConnections"
    /\ tasks[t].pc = "disconnect"
    /\ connections' = MapDelete(connections, tasks[t].id)
    /\ order' = OrderDelete(order, tasks[t].id)
    /\ CleanupCall(t, connections', DisconnectResolved(adapters, tasks[t].adapter),
                   [tasks[t] EXCEPT !.okIds = @ \cup {tasks[t].id}], tasks[t].todo)
    /\ UNCHANGED <<connectionTimeout, now, uuids>>

CleanupDisconnectFail(t) ==
    /\ tasks[t].op = "cleanupIdleConnections"
    /\ tasks[t].pc = "disconnect"
    /\ CleanupCall(t, connections, DisconnectRejected(adapters, tasks[t].adapter),
                   tasks[t], tasks[t].todo)
    /\ UNCHANGED <<connections, order, connectionTimeout, now, uuids>>

CleanupNotFound(t) ==
    /\ tasks[t].op = "cleanupIdleConnections"
    /\ tasks[t].pc = "notfound"
    /\ CleanupCall(t, connections, adapters, tasks[t], tasks[t].todo)
    /\ UNCHANGED <<connections, order, connectionTimeout, now, uuids>>

\* ---- testConnection ----
TestStart(t, type) ==
    /\ FreeSlot(t)
    /\ IF type = "unknown"
       THEN /\ event' = ReturnedBool("testConnection", FALSE)
            /\ UNCHANGED <<adapters, tasks>>
       ELSE /\ CanConstruct
            /\ adapters' = Construct(adapters, "test", 0)
            /\ tasks' = [tasks EXCEPT ![t] =
                  [Idle EXCEPT !.op = "testConnection", !.pc = "connect",
                               !.adapter = NewAdapterId]]
            /\ event' = Suspended
    /\ UNCHANGED <<connections, order, connectionTimeout, now, uuids>>

TestConnectOk(t) ==
    /\ tasks[t].op = "testConnection"
    /\ tasks[t].pc = "connect"
    /\ adapters' = ConnectResolved(adapters, tasks[t].adapter)
    /\ tasks' = [tasks EXCEPT ![t].pc = "healthCheck"]
    /\ event' = Suspended
    /\ UNCHANGED <<connections, order, connectionTimeout, now, uuids>>

TestConnectFailNoDisconnect(t) ==
    /\ tasks[t].op = "testConnection"
    /\ tasks[t].pc = "connect"
    /\ tasks' = [tasks EXCEPT ![t] = Idle]
    /\ adapters' = Collect(ConnectRejected(adapters, tasks[t].adapter), connections, tasks')
    /\ event' = ReturnedBool("testConnection", FALSE)
    /\ UNCHANGED <<connections, order, connectionTimeout, now, uuids>>

TestConnectFail(t) ==
    /\ tasks[t].op = "testConnection"
    /\ tasks[t].pc = "connect"
    /\ adapters' = InvokeDisconnect(ConnectRejected(adapters, tasks[t].adapter),
                                    tasks[t].adapter)
    /\ tasks' = [tasks EXCEPT ![t].pc = "catch"]
    /\ event' = Suspended
    /\ UNCHANGED <<connections, order, connectionTimeout, now, uuids>>

\* healthCheck() resolves to true or false and never rejects
TestHealthCheck(t, isHealthy) ==
    /\ tasks[t].op = "testConnection"
    /\ tasks[t].pc = "healthCheck"
    /\ adapters' = InvokeDisconnect(adapters, tasks[t].adapter)
    /\ tasks' = [tasks EXCEPT ![t].pc = "disconnect", ![t].healthy = isHealthy]
    /\ event' = Suspended
    /\ UNCHANGED <<connections, order, connectionTimeout, now, uuids>>

TestDisconnectOk(t) ==
    /\ tasks[t].op = "testConnection"
    /\ tasks[t].pc = "disconnect"
    /\ tasks' = [tasks EXCEPT ![t] = Idle]
    /\ adapters' = Collect(DisconnectResolved(adapters, tasks[t].adapter), connections, tasks')
    /\ event' = ReturnedBool("testConnection", tasks[t].healthy)
    /\ UNCHANGED <<connections, order, connectionTimeout, now, uuids>>

TestDisconnectFail(t) ==
    /\ tasks[t].op = "testConnection"
    /\ tasks[t].pc = "disconnect"
    /\ adapters' = InvokeDisconnect(DisconnectRejected(adapters, tasks[t].adapter),
                                    tasks[t].adapter)
    /\ tasks' = [tasks EXCEPT ![t].pc = "catch"]
    /\ event' = Suspended
    /\ UNCHANGED <<connections, order, connectionTimeout, now, uuids>>

TestCatchDisconnect(t, rejected) ==
    /\ tasks[t].op = "testConnection"
    /\ tasks[t].pc = "catch"
    /\ tasks' = [tasks EXCEPT ![t] = Idle]
    /\ adapters' = Collect(IF rejected THEN DisconnectRejected(adapters, tasks[t].adapter)
                           ELSE DisconnectResolved(adapters, tasks[t].adapter),
                           connections, tasks')
    /\ event' = ReturnedBool("testConnection", FALSE)
    /\ UNCHANGED <<connections, order, connectionTimeout, now, uuids>>

\* ---- specifications ----
Configs == [id : {0} \cup KnownIds, type : DatabaseTypes]

\* Spec: tool invocations in flight at the same time (spec.md section 5);
\* every registry operation may start while another is suspended in an await.
Next ==
    \/ \E t \in Tasks, cfg \in Configs : CreateStart(t, cfg) /\ UNCHANGED others
    \/ \E t \in Tasks : CreateConnectOk(t) /\ UNCHANGED others
    \/ \E t \in Tasks : CreateConnectFail(t) /\ UNCHANGED others
    \/ \E id \in KnownIds : GetConnection(id) /\ UNCHANGED others
    \/ ListConnections /\ UNCHANGED others
    \/ \E id \in KnownIds : GetConnectionInfo(id) /\ UNCHANGED others
    \/ \E timeout \in TimeoutChoices : SetConnectionTimeout(timeout) /\ UNCHANGED others
    \/ \E t \in Tasks, id \in KnownIds : DisconnectStart(t, id) /\ UNCHANGED others
    \/ \E t \in Tasks : DisconnectOk(t) /\ UNCHANGED others
    \/ \E t \in Tasks : DisconnectFail(t) /\ UNCHANGED others
    \/ \E t \in Tasks : DisconnectAllStart(t) /\ UNCHANGED others
    \/ \E t \in Tasks : \E p \in tasks[t].pending : DisconnectAllEntryOk(t, p) /\ UNCHANGED others
    \/ \E t \in Tasks : \E p \in tasks[t].pending : DisconnectAllEntryFail(t, p) /\ UNCHANGED others
    \/ \E t \in Tasks : CleanupStart(t) /\ UNCHANGED others
    \/ \E t \in Tasks : CleanupDisconnectOk(t) /\ UNCHANGED others
    \/ \E t \in Tasks : CleanupDisconnectFail(t) /\ UNCHANGED others
    \/ \E t \in Tasks : CleanupNotFound(t) /\ UNCHANGED others
    \/ Tick /\ UNCHANGED others

Spec == Init /\ [][Next]_vars

\* SpecSeq: a sequence of calls, each one settled before the next is made.
\* (CleanupNotFound needs a concurrent removal and cannot occur here.)
NextSeq ==
    \/ AllIdle /\ \E cfg \in Configs : CreateStart(1, cfg) /\ UNCHANGED others
    \/ CreateConnectOk(1) /\ UNCHANGED others
    \/ CreateConnectFail(1) /\ UNCHANGED others
    \/ AllIdle /\ \E id \in KnownIds : GetConnection(id) /\ UNCHANGED others
    \/ AllIdle /\ ListConnections /\ UNCHANGED others
    \/ AllIdle /\ \E id \in KnownIds : GetConnectionInfo(id) /\ UNCHANGED others
    \/ AllIdle /\ \E timeout \in TimeoutChoices : SetConnectionTimeout(timeout) /\ UNCHANGED others
    \/ AllIdle /\ \E id \in KnownIds : DisconnectStart(1, id) /\ UNCHANGED others
    \/ DisconnectOk(1) /\ UNCHANGED others
    \/ DisconnectFail(1) /\ UNCHANGED others
    \/ AllIdle /\ DisconnectAllStart(1) /\ UNCHANGED others
    \/ \E p \in tasks[1].pending : DisconnectAllEntryOk(1, p) /\ UNCHANGED others
    \/ \E p \in tasks[1].pending : DisconnectAllEntryFail(1, p) /\ UNCHANGED others
    \/ AllIdle /\ CleanupStart(1) /\ UNCHANGED others
    \/ CleanupDisconnectOk(1) /\ UNCHANGED others
    \/ CleanupDisconnectFail(1) /\ UNCHANGED others
    \/ AllIdle /\ \E type \in DatabaseTypes : TestStart(1, type) /\ UNCHANGED others
    \/ TestConnectOk(1) /\ UNCHANGED others
    \/ TestConnectFail(1) /\ UNCHANGED others
    \/ \E isHealthy \in BOOLEAN : TestHealthCheck(1, isHealthy) /\ UNCHANGED others
    \/ TestDisconnectOk(1) /\ UNCHANGED others
    \/ TestDisconnectFail(1) /\ UNCHANGED others
    \/ \E rejected \in BOOLEAN : TestCatchDisconnect(1, rejected) /\ UNCHANGED others
    \/ Tick /\ UNCHANGED others

SpecSeq == Init /\ [][NextSeq]_vars

\* ---- tool handlers (tools/*.ts, backup-restore tools) ----
MaxBackups == 2
MaxAdapterCalls == 2

\* handleQueryAnalysisTool, handleSchemaManagementTool, handleDataAnalysisTool
\* and handleSecurityTool all begin with the same lookup
AnalyzerHandlers == {"query-analysis", "schema-management", "data-analysis", "security"}

BackupIds == 1..MaxBackups

\* the handler looks the adapter up, throws when there is none, and otherwise
\* runs an analyzer method on it, which calls the adapter and may fail
HandleAnalyzerTool(handler, connectionId, failed) ==
    /\ AllIdle
    /\ IF Has(connections, connectionId)
       THEN /\ adapterCalls < MaxAdapterCalls
            /\ connections' = [connections EXCEPT ![connectionId].lastUsed = now]
            /\ adapterCalls' = adapterCalls + 1
            /\ event' = IF failed THEN Threw(handler, "query") ELSE Resolved(handler)
       ELSE /\ ~failed
            /\ event' = Threw(handler, "not found")
            /\ UNCHANGED <<connections, adapterCalls>>
    /\ args' = [method |-> handler, connectionId |-> connectionId]
    /\ UNCHANGED <<order, connectionTimeout, adapters, tasks, now, uuids,
                   backupStorage, pg, instance, result>>

CreateBackup(connectionId) ==
    /\ AllIdle
    /\ IF Has(connections, connectionId)
       THEN /\ Len(backupStorage) < MaxBackups
            /\ connections' = [connections EXCEPT ![connectionId].lastUsed = now]
            /\ backupStorage' = Append(backupStorage,
                   [id |-> Len(backupStorage) + 1, type |-> connections[connectionId].type])
            /\ event' = Returned("create_backup", Len(backupStorage) + 1)
       ELSE /\ event' = Threw("create_backup", "not found")
            /\ UNCHANGED <<connections, backupStorage>>
    /\ args' = [method |-> "create_backup", connectionId |-> connectionId]
    /\ UNCHANGED <<order, connectionTimeout, adapters, tasks, now, uuids,
                   adapterCalls, pg, instance, result>>

\* connectionId = Null: the optional argument is absent
ListBackups(connectionId) ==
    /\ AllIdle
    /\ IF connectionId # Null /\ Has(connections, connectionId)
       THEN /\ connections' = [connections EXCEPT ![connectionId].lastUsed = now]
            /\ event' = ReturnedList("list_backups",
                   SelectSeq(backupStorage,
                             LAMBDA b : b.type = connections[connectionId].type))
       ELSE /\ event' = ReturnedList("list_backups", backupStorage)
            /\ UNCHANGED connections
    /\ args' = [method |-> "list_backups", connectionId |-> connectionId]
    /\ UNCHANGED <<order, connectionTimeout, adapters, tasks, now, uuids,
                   backupStorage, adapterCalls, pg, instance, result>>

RestoreBackup(connectionId, backupId) ==
    /\ AllIdle
    /\ IF backupId \notin {backupStorage[i].id : i \in DOMAIN backupStorage}
       THEN /\ event' = Threw("restore_backup", "Backup not found")
            /\ UNCHANGED connections
       ELSE IF ~Has(connections, connectionId)
       THEN /\ event' = Threw("restore_backup", "not found")
            /\ UNCHANGED connections
       ELSE /\ connections' = [connections EXCEPT ![connectionId].lastUsed = now]
            /\ event' = Resolved("restore_backup")
    /\ args' = [method |-> "restore_backup", connectionId |-> connectionId]
    /\ UNCHANGED <<order, connectionTimeout, adapters, tasks, now, uuids,
                   backupStorage, adapterCalls, pg, instance, result>>

\* disconnect_database is connectionManager.disconnect(connectionId)
DisconnectDatabase(connectionId) ==
    /\ AllIdle
    /\ DisconnectStart(1, connectionId)
    /\ args' = [method |-> "disconnect_database", connectionId |-> connectionId]
    /\ UNCHANGED <<backupStorage, adapterCalls, pg, instance, result>>

\* SpecTools: tool calls, one at a time, on a registry filled by connect_database
NextTools ==
    \/ AllIdle /\ \E cfg \in Configs : CreateStart(1, cfg) /\ UNCHANGED others
    \/ CreateConnectOk(1) /\ UNCHANGED others
    \/ CreateConnectFail(1) /\ UNCHANGED others
    \/ \E id \in KnownIds : DisconnectDatabase(id)
    \/ DisconnectOk(1) /\ UNCHANGED others
    \/ DisconnectFail(1) /\ UNCHANGED others
    \/ \E h \in AnalyzerHandlers, id \in KnownIds, failed \in BOOLEAN :
          HandleAnalyzerTool(h, id, failed)
    \/ \E id \in KnownIds : CreateBackup(id)
    \/ \E id \in KnownIds \cup {Null} : ListBackups(id)
    \/ \E id \in KnownIds, b \in BackupIds : RestoreBackup(id, b)

SpecTools == Init /\ [][NextTools]_vars

\* ---- PostgreSQLAdapter transactions (MySQLAdapter has the same shape) ----
MaxSessions == 2
MaxCallers == 2

Callers == 1..MaxCallers
Sessions == 1..MaxSessions

NoCaller == [op |-> "idle", pc |-> "idle", session |-> Null]

\* what a method of the adapter or of an analyzer handed back
Ok(method) == [method |-> method, error |-> ""]

Failed(method, message) == [method |-> method, error |-> message]

PgOpen == [pool |-> TRUE, client |-> Null, sessions |-> <<>>,
           callers |-> [c \in Callers |-> NoCaller]]

\* connect(): the pool exists from here on
PgConnect ==
    /\ ~pg.pool
    /\ pg' = PgOpen
    /\ result' = Ok("connect")
    /\ UNCHANGED <<registry, backupStorage, adapterCalls, instance, args>>

OpenTransactions == {s \in DOMAIN pg.sessions : pg.sessions[s].tx}

\* pool.connect() hands out a client that is not checked out
FreeSession == CHOOSE s \in Sessions : s \notin DOMAIN pg.sessions

\* beginTransaction up to `await this.pool.connect()`
BeginTransaction(c) ==
    /\ IF ~pg.pool
       THEN /\ result' = Failed("beginTransaction", "Not connected")
            /\ UNCHANGED pg
       ELSE /\ pg.callers[c].op = "idle"
            /\ pg' = [pg EXCEPT !.callers[c] =
                        [NoCaller EXCEPT !.op = "begin", !.pc = "connect"]]
            /\ result' = NoCall
    /\ UNCHANGED <<registry, backupStorage, adapterCalls, instance, args>>

\* pool.connect() resolved: this.client = poolClient, then `await query('BEGIN')`
BeginAcquired(c) ==
    /\ pg.pool
    /\ pg.callers[c].op = "begin"
    /\ pg.callers[c].pc = "connect"
    /\ DOMAIN pg.sessions # Sessions
    /\ LET s == FreeSession IN
       pg' = [pg EXCEPT !.client = s,
                        !.sessions = [x \in DOMAIN pg.sessions \cup {s} |->
                                         IF x = s THEN [tx |-> FALSE] ELSE pg.sessions[x]],
                        !.callers[c] = [@ EXCEPT !.pc = "query", !.session = s]]
    /\ result' = NoCall
    /\ UNCHANGED <<registry, backupStorage, adapterCalls, instance, args>>

\* BEGIN executed on the client this call checked out
BeginDone(c) ==
    /\ pg.pool
    /\ pg.callers[c].op = "begin"
    /\ pg.callers[c].pc = "query"
    /\ pg' = [pg EXCEPT !.sessions[pg.callers[c].session].tx = TRUE,
                        !.callers[c] = NoCaller]
    /\ result' = Ok("beginTransaction")
    /\ UNCHANGED <<registry, backupStorage, adapterCalls, instance, args>>

\* commitTransaction / rollbackTransaction up to `await poolClient.query(...)`
EndTransaction(c, method) ==
    /\ IF pg.client = Null \/ ~pg.pool
       THEN /\ result' = Failed(method, "No active transaction")
            /\ UNCHANGED pg
       ELSE /\ pg.callers[c].op = "idle"
            /\ pg' = [pg EXCEPT !.callers[c] =
                        [op |-> method, pc |-> "query", session |-> pg.client]]
            /\ result' = NoCall
    /\ UNCHANGED <<registry, backupStorage, adapterCalls, instance, args>>

\* COMMIT / ROLLBACK executed: poolClient.release(); this.client = undefined.
\* Releasing a client that was already released throws.
EndDone(c) ==
    /\ pg.pool
    /\ pg.callers[c].op \in {"commitTransaction", "rollbackTransaction"}
    /\ LET s == pg.callers[c].session IN
       IF s \in DOMAIN pg.sessions
       THEN /\ pg' = [pg EXCEPT !.client = Null,
                                !.sessions = [x \in DOMAIN pg.sessions \ {s} |-> pg.sessions[x]],
                                !.callers[c] = NoCaller]
            /\ result' = Ok(pg.callers[c].op)
       ELSE /\ pg' = [pg EXCEPT !.callers[c] = NoCaller]
            /\ result' = Failed(pg.callers[c].op, "already released")
    /\ UNCHANGED <<registry, backupStorage, adapterCalls, instance, args>>

\* SpecTx: callers of one connected adapter, possibly at the same time
NextTx ==
    \/ PgConnect
    \/ \E c \in Callers : BeginTransaction(c)
    \/ \E c \in Callers : BeginAcquired(c)
    \/ \E c \in Callers : BeginDone(c)
    \/ \E c \in Callers, m \in {"commitTransaction", "rollbackTransaction"} : EndTransaction(c, m)
    \/ \E c \in Callers : EndDone(c)

SpecTx == Init /\ [][NextTx]_vars

\* ---- explainQuery (adapters and QueryAnalyzer) ----
MaxWords == 2

Engines == {"redis", "mssql", "postgresql"}

\* getCapabilities().supportsExplain
SupportsExplain(engine) == engine = "postgresql"

\* a statement is the list of its words (query.trim().split(/\s+/) of the
\* empty statement is one empty word)
Words == {"get", "KEYS", "select"}

Statements == UNION {[1..n -> Words] : n \in 0..MaxWords}

\* String.prototype.toUpperCase on the words above
ToUpperCase(w) ==
    CASE w = "get" -> "GET"
      [] w = "select" -> "SELECT"
      [] OTHER -> w

\* RedisAdapter.getCommandComplexity
GetCommandComplexity(command) ==
    CASE command \in {"GET", "SET"} -> "O(1)"
      [] command \in {"DEL", "KEYS", "HGETALL", "SMEMBERS"} -> "O(N)"
      [] command = "LRANGE" -> "O(S+N)"
      [] OTHER -> "O(1)"

\* Promise<ExecutionPlan | null>: <<>> is null, <<p>> is the plan p
NullPlan == <<>>

RedisExplainQuery(query) ==
    LET command == IF query = <<>> THEN "" ELSE ToUpperCase(query[1])
    IN <<[plan |-> [command |-> command, complexity |-> GetCommandComplexity(command)],
          operations |-> <<[type |-> command, cost |-> 0, rows |-> 0]>>]>>

\* executeQuery of the wrapped statement: rejected by the engine, no rows, or rows
ExecuteOutcomes == {"error", "empty", "rows"}

SqlExplainQuery(engine, query, outcome) ==
    IF outcome = "empty" THEN NullPlan
    ELSE <<[plan |-> [command |-> engine, complexity |-> ""], operations |-> <<>>]>>

\* adapter.explainQuery(query, params) of the engine's adapter
AdapterExplainQuery(engine, query, outcome) ==
    /\ args' = [method |-> "adapter.explainQuery", error |-> "",
                engine |-> engine, query |-> query]
    /\ result' =
         IF engine = "redis"
         THEN [method |-> "adapter.explainQuery", error |-> "",
               plan |-> RedisExplainQuery(query)]
         ELSE IF outcome = "error"
         THEN [method |-> "adapter.explainQuery", error |-> "query", plan |-> NullPlan]
         ELSE [method |-> "adapter.explainQuery", error |-> "",
               plan |-> SqlExplainQuery(engine, query, outcome)]
    /\ UNCHANGED <<registry, backupStorage, adapterCalls, pg, instance>>

\* QueryAnalyzer.explainQuery: asks the adapter only when it supports explain
AnalyzerExplainQuery(engine, query, outcome) ==
    /\ args' = [method |-> "analyzer.explainQuery", error |-> "",
                engine |-> engine, query |-> query]
    /\ result' =
         IF ~SupportsExplain(engine)
         THEN [method |-> "analyzer.explainQuery", error |-> "", plan |-> NullPlan]
         ELSE IF outcome = "error"
         THEN [method |-> "analyzer.explainQuery", error |-> "query", plan |-> NullPlan]
         ELSE [method |-> "analyzer.explainQuery", error |-> "",
               plan |-> SqlExplainQuery(engine, query, outcome)]
    /\ UNCHANGED <<registry, backupStorage, adapterCalls, pg, instance>>

NextExplain ==
    \/ \E e \in Engines, q \in Statements, o \in ExecuteOutcomes : AdapterExplainQuery(e, q, o)
    \/ \E e \in Engines, q \in Statements, o \in ExecuteOutcomes : AnalyzerExplainQuery(e, q, o)

SpecExplain == Init /\ [][NextExplain]_vars

\* ---- SchemaAnalyzer.generateMigration ----
MaxChanges == 2

TableNames == {"a", "b"}
ColumnNames == {"x", "y"}

\* sequences without repetition over a set, of length at most two
Distinct(S) ==
    {<<>>} \cup {<<e>> : e \in S} \cup ({<<e, f>> : e \in S, f \in S} \ {<<e, e>> : e \in S})

Range(s) == {s[i] : i \in DOMAIN s}

\* Column: {name, type, nullable}; a table keeps the names in `columns`, in
\* order, and type and nullable per name in `types`
ColumnTypes == {"integer", "text"}

NullableInteger == [type |-> "integer", nullable |-> TRUE]

\* Index: {name, columns, unique}
IndexesOn(columns) ==
    IF columns = <<>> THEN {<<>>}
    ELSE {<<>>} \cup {<<[name |-> "i", columns |-> <<columns[1]>>, unique |-> u]>> : u \in BOOLEAN}

PrimaryKeysOn(columns) ==
    IF columns = <<>> THEN {<<>>} ELSE {<<>>, <<columns[1]>>}

\* Table: {name, columns, primaryKey, indexes}, every column a nullable integer
TablesNamed(name) ==
    UNION {[name : {name}, columns : {cols}, primaryKey : PrimaryKeysOn(cols),
            indexes : IndexesOn(cols),
            types : {[c \in Range(cols) |-> NullableInteger]}] : cols \in Distinct(ColumnNames)}

AllTables == UNION {TablesNamed(n) : n \in TableNames}

\* Schema.tables: tables with different names
Schemas ==
    {<<>>} \cup {<<t>> : t \in AllTables}
        \cup {p \in {<<t, u>> : t \in AllTables, u \in AllTables} : p[1].name # p[2].name}

\* escapeIdentifier: the identifier between double quotes (no identifier
\* used here contains a double quote, so nothing is doubled)
EscapeIdentifier(identifier) == <<"\"", identifier, "\"">>

\* one entry of upStatements / downStatements
Statement(kind, table, column, columns, primaryKey, indexes) ==
    [kind |-> kind, table |-> table, column |-> column, columns |-> columns,
     primaryKey |-> primaryKey, indexes |-> indexes, definitions |-> <<>>]

\* `${column.type}${column.nullable ? '' : ' NOT NULL'}`: the words after
\* the column's name
ColumnDefinition(column) ==
    IF column.nullable THEN <<column.type>> ELSE <<column.type, "NOT NULL">>

Map(s, F(_)) == [i \in DOMAIN s |-> F(s[i])]

\* generateCreateTableStatement: the column definitions, the PRIMARY KEY
\* clause, and a plain CREATE INDEX for every index that has no column of the
\* primary key (the statement does not say UNIQUE)
GenerateCreateTableStatement(table) ==
    [Statement("CREATE TABLE", EscapeIdentifier(table.name), <<>>,
               Map(table.columns, EscapeIdentifier),
               Map(table.primaryKey, EscapeIdentifier),
               Map(SelectSeq(table.indexes,
                             LAMBDA index : Range(index.columns) \cap Range(table.primaryKey) = {}),
                   LAMBDA index : [name |-> EscapeIdentifier(index.name),
                                   columns |-> Map(index.columns, EscapeIdentifier)]))
        EXCEPT !.definitions = Map(table.columns, LAMBDA c : ColumnDefinition(table.types[c]))]

DropTableStatement(table) ==
    Statement("DROP TABLE IF EXISTS", EscapeIdentifier(table.name), <<>>, <<>>, <<>>, <<>>)

AddColumnStatement(table, name) ==
    [Statement("ADD COLUMN", EscapeIdentifier(table.name), EscapeIdentifier(name), <<>>, <<>>, <<>>)
        EXCEPT !.definitions = <<ColumnDefinition(table.types[name])>>]

DropColumnStatement(table, name) ==
    Statement("DROP COLUMN", EscapeIdentifier(table.name), EscapeIdentifier(name), <<>>, <<>>, <<>>)

\* `-- Column ${name} was dropped and cannot be automatically restored`
DroppedColumnComment(name) ==
    Statement("-- Column was dropped", <<>>, name, <<>>, <<>>, <<>>)

\* compareTables(source, target)
CompareTables(source, target) ==
    LET new == SelectSeq(target.columns, LAMBDA c : c \notin Range(source.columns))
        dropped == SelectSeq(source.columns, LAMBDA c : c \notin Range(target.columns))
    IN [up |-> Map(new, LAMBDA c : AddColumnStatement(target, c))
                  \o Map(dropped, LAMBDA c : DropColumnStatement(target, c)),
        down |-> Map(new, LAMBDA c : DropColumnStatement(target, c))
                  \o Map(dropped, DroppedColumnComment)]

\* sourceSchema.tables.find((t) => t.name === name)
Find(tables, name) ==
    LET i == CHOOSE i \in DOMAIN tables :
                 /\ tables[i].name = name
                 /\ \A j \in 1..(i - 1) : tables[j].name # name
    IN tables[i]

RECURSIVE Flatten(_)
Flatten(ss) == IF ss = <<>> THEN <<>> ELSE Head(ss) \o Flatten(Tail(ss))

NotReversed(s) == s

\* Array.prototype.reverse
Reverse(s) == [i \in DOMAIN s |-> s[Len(s) + 1 - i]]

\* generateMigration(sourceSchema, targetSchema, name): the entries of up and
\* down (the code joins each list with blank lines)
GenerateMigration(sourceSchema, targetSchema) ==
    LET sourceTableNames == {sourceSchema[i].name : i \in DOMAIN sourceSchema}
        targetTableNames == {targetSchema[i].name : i \in DOMAIN targetSchema}
        created == SelectSeq(targetSchema, LAMBDA t : t.name \notin sourceTableNames)
        removed == SelectSeq(sourceSchema, LAMBDA t : t.name \notin targetTableNames)
        kept == SelectSeq(targetSchema, LAMBDA t : t.name \in sourceTableNames)
        tableChanges == Map(kept, LAMBDA t : CompareTables(Find(sourceSchema, t.name), t))
        upStatements == Map(created, GenerateCreateTableStatement)
                           \o Map(removed, DropTableStatement)
                           \o Flatten(Map(tableChanges, LAMBDA ch : ch.up))
        downStatements == Map(created, DropTableStatement)
                             \o Map(removed, GenerateCreateTableStatement)
                             \o Flatten(Map(tableChanges, LAMBDA ch : ch.down))
    IN [method |-> "generateMigration", error |-> "",
        up |-> upStatements, down |-> Reverse(downStatements)]

\* the target database is the source database after some DDL: CREATE TABLE,
\* DROP TABLE, ADD COLUMN, DROP COLUMN (with what was built on the column),
\* ALTER COLUMN ... TYPE, or ALTER COLUMN ... SET NOT NULL
WithoutColumn(table, c) ==
    [table EXCEPT !.columns = SelectSeq(@, LAMBDA d : d # c),
                  !.primaryKey = SelectSeq(@, LAMBDA d : d # c),
                  !.indexes = SelectSeq(@, LAMBDA index : c \notin Range(index.columns)),
                  !.types = [d \in (DOMAIN @) \ {c} |-> @[d]]]

WithColumn(table, c, column) ==
    [table EXCEPT !.columns = Append(@, c),
                  !.types = [d \in (DOMAIN @) \cup {c} |-> IF d = c THEN column ELSE @[d]]]

AlterTarget(targetSchema) ==
    LET names == {targetSchema[i].name : i \in DOMAIN targetSchema} IN
      {Append(targetSchema, t) : t \in {u \in AllTables : u.name \notin names}}
        \cup {SelectSeq(targetSchema, LAMBDA t : t.name # n) : n \in names}
        \cup UNION {{[targetSchema EXCEPT ![i] = WithColumn(@, c, NullableInteger)] :
                        c \in ColumnNames \ Range(targetSchema[i].columns)} :
                       i \in DOMAIN targetSchema}
        \cup UNION {{[targetSchema EXCEPT ![i].types[c].type = "text"] :
                        c \in Range(targetSchema[i].columns)} :
                       i \in DOMAIN targetSchema}
        \cup UNION {{[targetSchema EXCEPT ![i].types[c].nullable = FALSE] :
                        c \in Range(targetSchema[i].columns)} :
                       i \in DOMAIN targetSchema}
        \cup UNION {{[targetSchema EXCEPT ![i] = WithoutColumn(@, c)] :
                        c \in Range(targetSchema[i].columns)} :
                       i \in DOMAIN targetSchema}

InitMigration ==
    /\ InitRegistry
    /\ backupStorage = <<>>
    /\ adapterCalls = 0
    /\ pg = PgClosed
    /\ instance = NoInstance
    /\ \E s \in Schemas :
          args = [method |-> "getSchema", error |-> "",
                  sourceSchema |-> s, targetSchema |-> s, changes |-> 0]
    /\ result = NoCall

\* DDL run on the target database before its snapshot is taken
ChangeTargetDatabase ==
    /\ result = NoCall
    /\ args.changes < MaxChanges
    /\ \E t \in AlterTarget(args.targetSchema) \ {args.targetSchema} :
          args' = [args EXCEPT !.targetSchema = t, !.changes = @ + 1]
    /\ UNCHANGED <<registry, backupStorage, adapterCalls, pg, instance, result>>

GenerateMigrationCall ==
    /\ result = NoCall
    /\ args' = [args EXCEPT !.method = "generateMigration"]
    /\ result' = GenerateMigration(args.sourceSchema, args.targetSchema)
    /\ UNCHANGED <<registry, backupStorage, adapterCalls, pg, instance>>

NextMigration ==
    \/ ChangeTargetDatabase
    \/ GenerateMigrationCall

SpecMigration == InitMigration /\ [][NextMigration]_vars

\* ---- QueryAnalyzer.analyzeForeignKeys ----
MaxFks == 3

\* the tables of the schema, in the order getSchema lists them
SchemaTables == <<"a", "b", "c">>

\* fk.onDelete: <<>> when the field is not set, else the rule in it
OnDeleteRules == {<<>>, <<"NO ACTION">>, <<"CASCADE">>}

NoForeignKeys == [t \in Range(SchemaTables) |-> <<>>]

CountForeignKeys(foreignKeys) ==
    Len(Flatten([i \in DOMAIN SchemaTables |-> foreignKeys[SchemaTables[i]]]))

\* for (const table of schemaInfo.tables) allForeignKeys.push(...table.foreignKeys)
AllForeignKeys(foreignKeys) ==
    Flatten([i \in DOMAIN SchemaTables |-> foreignKeys[SchemaTables[i]]])

\* the while loop of detectCircularReference: stack.pop() takes the last entry
RECURSIVE DetectLoop(_, _, _)
DetectLoop(stack, visited, allForeignKeys) ==
    IF stack = <<>> THEN FALSE
    ELSE LET currentTable == stack[Len(stack)]
             referencingFks == SelectSeq(allForeignKeys, LAMBDA f : f.table = currentTable)
         IN IF currentTable \in visited THEN TRUE
            ELSE DetectLoop(SubSeq(stack, 1, Len(stack) - 1)
                               \o Map(referencingFks, LAMBDA refFk : refFk.referencedTable),
                            visited \cup {currentTable}, allForeignKeys)

DetectNoReference(fk, allForeignKeys) == FALSE

DetectCircularReference(fk, allForeignKeys) ==
    DetectLoop(<<fk.referencedTable>>, {}, allForeignKeys)

OnDeleteNeverMissing(fk) == FALSE

\* !fk.onDelete || fk.onDelete === 'NO ACTION'
OnDeleteMissing(fk) == fk.onDelete = <<>> \/ fk.onDelete = <<"NO ACTION">>

Issue(severity, description, fk) ==
    [severity |-> severity, description |-> description, name |-> fk.name]

\* the issues one foreign key gives, in the order they are pushed
IssuesOf(fk, allForeignKeys) ==
    (IF OnDeleteMissing(fk)
        THEN <<Issue("medium", "Foreign key has no ON DELETE action", fk)>> ELSE <<>>)
    \o (IF DetectCircularReference(fk, allForeignKeys)
        THEN <<Issue("high", "Circular reference detected involving", fk)>> ELSE <<>>)

AnalyzeForeignKeys(foreignKeys) ==
    LET allForeignKeys == AllForeignKeys(foreignKeys) IN
    [method |-> "analyzeForeignKeys", error |-> "",
     foreignKeys |-> allForeignKeys,
     issues |-> Flatten(Map(allForeignKeys, LAMBDA fk : IssuesOf(fk, allForeignKeys)))]

InitFk ==
    /\ InitRegistry
    /\ backupStorage = <<>>
    /\ adapterCalls = 0
    /\ pg = PgClosed
    /\ instance = NoInstance
    /\ args = [method |-> "getSchema", error |-> "", foreignKeys |-> NoForeignKeys]
    /\ result = NoCall

\* the database gets one more foreign key, on some table
AddForeignKey(table, referencedTable, onDelete) ==
    /\ CountForeignKeys(args.foreignKeys) < MaxFks
    /\ args' = [method |-> "getSchema", error |-> "",
                foreignKeys |->
                    [args.foreignKeys EXCEPT ![table] =
                        Append(@, [name |-> CountForeignKeys(args.foreignKeys) + 1,
                                   table |-> table,
                                   referencedTable |-> referencedTable,
                                   onDelete |-> onDelete])]]
    /\ result' = NoCall
    /\ UNCHANGED <<registry, backupStorage, adapterCalls, pg, instance>>

\* analyzeForeignKeys with a getSchema that resolves
AnalyzeForeignKeysCall ==
    /\ args' = [args EXCEPT !.method = "analyzeForeignKeys", !.error = ""]
    /\ result' = AnalyzeForeignKeys(args.foreignKeys)
    /\ UNCHANGED <<registry, backupStorage, adapterCalls, pg, instance>>

\* analyzeForeignKeys with a getSchema that rejects: the await rethrows
AnalyzeForeignKeysFail ==
    /\ args' = [args EXCEPT !.method = "analyzeForeignKeys", !.error = "getSchema"]
    /\ result' = Failed("analyzeForeignKeys", "getSchema")
    /\ UNCHANGED <<registry, backupStorage, adapterCalls, pg, instance>>

NextFk ==
    \/ \E table \in Range(SchemaTables), referencedTable \in Range(SchemaTables),
          onDelete \in OnDeleteRules : AddForeignKey(table, referencedTable, onDelete)
    \/ AnalyzeForeignKeysCall
    \/ AnalyzeForeignKeysFail

SpecFk == InitFk /\ [][NextFk]_vars

\* ---- QueryAnalyzer.analyzeQuery: the performance score ----
MaxOps == 2

\* result.executionTime in milliseconds: <<>> when not set
ExecutionTimes ==
    {<<>>} \cup {<<t>> : t \in {0, 100, 101, 500, 501, 1000, 1001, 5000, 5001}}

\* op.cost of one operation of a plan
OperationCosts == {0, 60, 101, 1001, 10001}

\* the plan: <<>> for null, else the costs of plan.operations in order
Plans ==
    {<<>>} \cup {<<operations>> :
                    operations \in UNION {[1..n -> OperationCosts] : n \in 0..MaxOps}}

\* plan.operations.reduce((sum, op) => sum + op.cost, 0)
RECURSIVE Reduce(_, _)
Reduce(operations, sum) ==
    IF operations = <<>> THEN sum ELSE Reduce(Tail(operations), sum + Head(operations))

Max(a, b) == IF a > b THEN a ELSE b

TimePenaltySwapped(executionTime) ==
    IF executionTime = <<>> \/ executionTime = <<0>> THEN 0
    ELSE IF executionTime[1] > 5000 THEN 5
    ELSE IF executionTime[1] > 1000 THEN 15
    ELSE IF executionTime[1] > 500 THEN 30
    ELSE IF executionTime[1] > 100 THEN 50
    ELSE 0

\* if (executionTime) { ... }: neither undefined nor 0
TimePenalty(executionTime) ==
    IF executionTime = <<>> \/ executionTime = <<0>> THEN 0
    ELSE IF executionTime[1] > 5000 THEN 50
    ELSE IF executionTime[1] > 1000 THEN 30
    ELSE IF executionTime[1] > 500 THEN 15
    ELSE IF executionTime[1] > 100 THEN 5
    ELSE 0

\* if (plan?.operations) { ... }
CostPenalty(plan) ==
    IF plan = <<>> THEN 0
    ELSE LET totalCost == Reduce(plan[1], 0) IN
         IF totalCost > 10000 THEN 30
         ELSE IF totalCost > 1000 THEN 15
         ELSE IF totalCost > 100 THEN 5
         ELSE 0

CalculatePerformanceScore(executionTime, plan) ==
    Max(0, 100 - TimePenalty(executionTime) - CostPenalty(plan))

InitScore ==
    /\ InitRegistry
    /\ backupStorage = <<>>
    /\ adapterCalls = 0
    /\ pg = PgClosed
    /\ instance = NoInstance
    /\ args = NoCall
    /\ result = NoCall

\* analyzeQuery when executeQuery resolves; plan stays null when the engine
\* has no EXPLAIN or explainQuery gives null
AnalyzeQuery(executionTime, plan) ==
    /\ args' = [method |-> "analyzeQuery", error |-> "",
                executionTime |-> executionTime, plan |-> plan]
    /\ result' = [method |-> "analyzeQuery", error |-> "",
                  executionTime |-> executionTime, plan |-> plan,
                  performanceScore |-> CalculatePerformanceScore(executionTime, plan)]
    /\ UNCHANGED <<registry, backupStorage, adapterCalls, pg, instance>>

\* analyzeQuery when executeQuery rejects: the catch block leaves
\* executionTime undefined and plan null
AnalyzeQueryFail ==
    /\ args' = [method |-> "analyzeQuery", error |-> "Query execution failed",
                executionTime |-> <<>>, plan |-> <<>>]
    /\ result' = [method |-> "analyzeQuery", error |-> "",
                  executionTime |-> <<>>, plan |-> <<>>,
                  performanceScore |-> CalculatePerformanceScore(<<>>, <<>>)]
    /\ UNCHANGED <<registry, backupStorage, adapterCalls, pg, instance>>

NextScore ==
    \/ \E executionTime \in ExecutionTimes, plan \in Plans : AnalyzeQuery(executionTime, plan)
    \/ AnalyzeQueryFail

SpecScore == InitScore /\ [][NextScore]_vars

\* ---- one DatabaseAdapter object: connect, disconnect, transactions ----
MaxEngineCalls == 5
MaxHeld == 2

\* ConnectionManager.createAdapter: one class per type
AdapterTypes == {"postgresql", "mysql", "sqlite", "mssql", "mongodb", "redis"}

\* the classes that keep the connection of a transaction in a field
\* (PostgreSQLAdapter.client, MySQLAdapter.connection)
PooledTypes == {"postgresql", "mysql"}

\* getCapabilities().supportsTransactions
SupportsTransactions(type) == type \in AdapterTypes

\* new XAdapter(config): no field set, connected = false.
\* main: the pool / client / db field is set; tx: the client / connection
\* field of a transaction is set; open: what the engine side keeps open;
\* held: connections checked out of the pool; inTx: a transaction is active
\* on the engine side; connectCalled: connect() was called on the object
NewInstance(type) ==
    [engine |-> type, connected |-> FALSE, main |-> FALSE, tx |-> FALSE,
     open |-> {}, held |-> 0, inTx |-> FALSE, connectCalled |-> FALSE,
     engineCalls |-> 0]

\* what the engine does with a call
EngineOutcomes == {"ok", "rejects"}

\* config passes validateConfig or not
ConfigOutcomes == {"valid", "invalid"}

\* the object after a method, and the error the method threw ("" for none)
Outcome(inst, error) == [inst |-> inst, error |-> error]

EngineCall(inst) == [inst EXCEPT !.engineCalls = @ + 1]

\* connect(): validateConfig, then the pool / client / db is made and put in
\* its field, then (all but SQLite) the first connection is awaited.
\* new Database(path) of SQLite throws before the field is assigned.
ConnectOf(inst, config, outcome) ==
    LET called == [inst EXCEPT !.connectCalled = TRUE] IN
    IF config = "invalid" THEN Outcome(called, "Either connectionString or host is required")
    ELSE IF inst.engine = "sqlite"
    THEN IF outcome = "rejects" THEN Outcome(EngineCall(called), "engine")
         ELSE Outcome([EngineCall(called) EXCEPT !.main = TRUE, !.open = @ \cup {"main"},
                                                  !.connected = TRUE], "")
    ELSE LET made == [EngineCall(called) EXCEPT !.main = TRUE, !.open = @ \cup {"main"}] IN
         IF outcome = "rejects" THEN Outcome(made, "engine")
         ELSE Outcome([made EXCEPT !.connected = TRUE], "")

DisconnectAlways(inst, outcome) == Outcome(EngineCall(inst), "")

\* disconnect(): end what the fields hold, clear them, connected = false.
\* The outcome is that of the first engine call the method makes.
DisconnectOf(inst, outcome) ==
    IF inst.main
    THEN IF outcome = "rejects" THEN Outcome(EngineCall(inst), "engine")
         ELSE Outcome([EngineCall(inst) EXCEPT !.main = FALSE, !.tx = FALSE,
                                               !.open = {}, !.held = 0, !.inTx = FALSE,
                                               !.connected = FALSE], "")
    ELSE IF inst.tx
    THEN IF outcome = "rejects" THEN Outcome(EngineCall(inst), "engine")
         ELSE Outcome([EngineCall(inst) EXCEPT !.tx = FALSE, !.open = @ \ {"tx"},
                                               !.held = 0, !.inTx = FALSE,
                                               !.connected = FALSE], "")
    ELSE Outcome([inst EXCEPT !.connected = FALSE], "")

\* beginTransaction() of each class
BeginTransactionOf(inst, outcome) ==
    CASE inst.engine = "redis" ->
            Outcome(inst, "Transactions not supported by this adapter")
      [] ~inst.main -> Outcome(inst, "Not connected")
      [] inst.engine \in PooledTypes ->
            \* this.client = await this.pool.connect(); await this.client.query('BEGIN')
            IF outcome = "rejects" THEN Outcome(EngineCall(inst), "engine")
            ELSE Outcome([EngineCall(inst) EXCEPT !.tx = TRUE, !.open = @ \cup {"tx"},
                                                  !.held = @ + 1, !.inTx = TRUE], "")
      [] inst.engine = "sqlite" ->
            \* this.db.exec('BEGIN TRANSACTION') throws inside a transaction
            IF outcome = "rejects" \/ inst.inTx THEN Outcome(EngineCall(inst), "engine")
            ELSE Outcome([EngineCall(inst) EXCEPT !.inTx = TRUE], "")
      [] OTHER ->
            \* mongodb: startSession().startTransaction(); mssql: new
            \* sql.Transaction(pool).begin(); the object is kept nowhere
            IF outcome = "rejects" THEN Outcome(EngineCall(inst), "engine")
            ELSE Outcome([EngineCall(inst) EXCEPT !.open = @ \cup {"session"}], "")

EndTransactionKeeps(inst, outcome) == Outcome(EngineCall(inst), "")

\* commitTransaction() and rollbackTransaction() of each class
EndTransactionOf(inst, outcome) ==
    CASE inst.engine = "redis" ->
            Outcome(inst, "Transactions not supported by this adapter")
      [] inst.engine = "mongodb" ->
            Outcome(inst, "Transaction management needs session reference")
      [] inst.engine = "mssql" ->
            Outcome(inst, "Transaction management needs connection reference")
      [] inst.engine \in PooledTypes ->
            IF ~inst.tx \/ (inst.engine = "postgresql" /\ ~inst.main)
            THEN Outcome(inst, "No active transaction")
            ELSE IF outcome = "rejects" THEN Outcome(EngineCall(inst), "engine")
            ELSE Outcome([EngineCall(inst) EXCEPT !.tx = FALSE, !.held = @ - 1,
                                                  !.open = IF inst.held = 1 THEN @ \ {"tx"} ELSE @,
                                                  !.inTx = FALSE], "")
      [] OTHER ->
            \* sqlite: db.exec('COMMIT') throws outside a transaction
            IF ~inst.main THEN Outcome(inst, "No active transaction")
            ELSE IF outcome = "rejects" \/ ~inst.inTx THEN Outcome(EngineCall(inst), "engine")
            ELSE Outcome([EngineCall(inst) EXCEPT !.inTx = FALSE], "")

AdapterMethods == {"connect", "disconnect", "beginTransaction", "commitTransaction",
                   "rollbackTransaction"}

MethodOf(inst, method, config, outcome) ==
    CASE method = "connect" -> ConnectOf(inst, config, outcome)
      [] method = "disconnect" -> DisconnectOf(inst, outcome)
      [] method = "beginTransaction" -> BeginTransactionOf(inst, outcome)
      [] OTHER -> EndTransactionOf(inst, outcome)

InitAdapter ==
    /\ InitRegistry
    /\ backupStorage = <<>>
    /\ adapterCalls = 0
    /\ pg = PgClosed
    /\ instance = NoInstance
    /\ args = NoCall
    /\ result = NoCall

AdapterCall(method, type, config, outcome) ==
    [method |-> method, error |-> "", engine |-> type, config |-> config, outcome |-> outcome]

\* createAdapter(type, config)
CreateAdapter(type) ==
    /\ instance = NoInstance
    /\ instance' = NewInstance(type)
    /\ args' = AdapterCall("createAdapter", type, "valid", "ok")
    /\ result' = Ok("createAdapter")
    /\ UNCHANGED <<registry, backupStorage, adapterCalls, pg>>

\* one method of the adapter, called when no other call is in flight
CallAdapter(method, config, outcome) ==
    /\ instance # NoInstance
    /\ instance.engineCalls < MaxEngineCalls
    /\ instance.held < MaxHeld
    /\ method = "connect" => ~instance.connected
    /\ method # "connect" => config = "valid"
    /\ LET done == MethodOf(instance, method, config, outcome) IN
       /\ instance' = done.inst
       /\ result' = [method |-> method, error |-> done.error]
    /\ args' = AdapterCall(method, instance.engine, config, outcome)
    /\ UNCHANGED <<registry, backupStorage, adapterCalls, pg>>

\* ConnectionManager.createConnection up to its await: createAdapter, then
\* `await adapter.connect()`; a rejection leaves the method at once
CreateConnection(type, config, outcome) ==
    /\ instance = NoInstance
    /\ LET done == ConnectOf(NewInstance(type), config, outcome) IN
       /\ instance' = done.inst
       /\ result' = [method |-> "createConnection", error |-> done.error]
    /\ args' = AdapterCall("createConnection", type, config, outcome)
    /\ UNCHANGED <<registry, backupStorage, adapterCalls, pg>>

NextAdapter ==
    \/ \E type \in AdapterTypes : CreateAdapter(type)
    \/ \E method \in AdapterMethods, config \in ConfigOutcomes, outcome \in EngineOutcomes :
          CallAdapter(method, config, outcome)
    \/ \E type \in AdapterTypes, config \in ConfigOutcomes, outcome \in EngineOutcomes :
          CreateConnection(type, config, outcome)

SpecAdapter == InitAdapter /\ [][NextAdapter]_vars

\* ---- DataAnalyzer on the table users(id integer primary key, age integer) ----
MaxRows == 4

\* table.columns of users, in the order getSchema lists them
UsersColumns == <<"id", "age">>

\* what the age of a row can be
AgeValues == {"30", "40", "NULL"}

\* how many rows have one age: small numbers, and the sizes that put the
\* share of NULLs at 60%, at 90% and above 90%
RowCounts == (0..MaxRows) \cup {9, 10, 40, 60}

\* the rows of users seen through age: ids are all distinct, so the table is
\* the number of rows per age
UsersTables == [AgeValues -> RowCounts]

\* SELECT COUNT(*) FROM users
CountRows(table) == table["30"] + table["40"] + table["NULL"]

\* SELECT COUNT(*) FROM users WHERE column IS NULL
CountNulls(table, column) == IF column = "age" THEN table["NULL"] ELSE 0

\* SELECT COUNT(DISTINCT column) FROM users
CountDistinct(table, column) ==
    IF column = "age" THEN Cardinality({v \in AgeValues \ {"NULL"} : table[v] > 0})
    ELSE CountRows(table)

\* the groups of SELECT ... GROUP BY checkColumns HAVING COUNT(*) > 1: with
\* id among the columns every row is a group of its own
DuplicateGroups(table, checkColumns) ==
    IF "id" \in Range(checkColumns) THEN {}
    ELSE {v \in AgeValues : table[v] > 1}

Min(a, b) == IF a < b THEN a ELSE b

DefaultLimit == 100

\* findDuplicates: result.rows.length of the GROUP BY query under LIMIT
FindDuplicates(table, columns, limit) ==
    LET checkColumns == IF Len(columns) > 0 THEN columns ELSE UsersColumns IN
    [method |-> "findDuplicates", error |-> "", columns |-> checkColumns,
     duplicateCount |-> Min(Cardinality(DuplicateGroups(table, checkColumns)), limit),
     totalRows |-> CountRows(table)]

\* getColumnStats: nullPercentage = (nullCount / total) * 100 is kept as the
\* pair nullCount, total; parseInt(total) || 1 makes an empty table 1
GetColumnStats(table, column) ==
    [column |-> column,
     nullCount |-> CountNulls(table, column),
     total |-> IF CountRows(table) = 0 THEN 1 ELSE CountRows(table),
     distinctValues |-> CountDistinct(table, column)]

\* nullPercentage > percent
NullPercentageAbove(colStat, percent) == colStat.nullCount * 100 > percent * colStat.total

\* Math.round(x / y) for x >= 0, y > 0
RoundDiv(x, y) == (2 * x + y) \div (2 * y)

DataIssue(type, severity, affectedRows, column) ==
    [type |-> type, severity |-> severity, affectedRows |-> affectedRows, column |-> column]

SeverityAlwaysMedium(colStat) == "medium"

\* colStat.nullPercentage > 90 ? 'high' : 'medium'
MissingSeverity(colStat) == IF NullPercentageAbove(colStat, 90) THEN "high" ELSE "medium"

\* Math.round((stats.rowCount * colStat.nullPercentage) / 100)
AffectedRows(rowCount, colStat) == RoundDiv(rowCount * colStat.nullCount * 100, colStat.total * 100)

MissingIssues(rowCount, colStat) ==
    IF NullPercentageAbove(colStat, 50)
    THEN <<DataIssue("missing", MissingSeverity(colStat), AffectedRows(rowCount, colStat),
                     colStat.column)>>
    ELSE <<>>

\* duplicatePercentage > 10 ? 'high' : duplicatePercentage > 5 ? 'medium' : 'low'
DuplicateIssues(duplicateResult) ==
    IF duplicateResult.duplicateCount > 0
    THEN <<DataIssue("duplicate",
                     IF duplicateResult.duplicateCount * 100 > 10 * duplicateResult.totalRows
                        THEN "high"
                     ELSE IF duplicateResult.duplicateCount * 100 > 5 * duplicateResult.totalRows
                        THEN "medium" ELSE "low",
                     duplicateResult.duplicateCount, "")>>
    ELSE <<>>

\* distinctRatio < 0.1 && stats.rowCount > 100
InconsistentIssues(rowCount, colStat) ==
    IF colStat.distinctValues # 0 /\ rowCount > 0
          /\ colStat.distinctValues * 10 < rowCount /\ rowCount > 100
    THEN <<DataIssue("inconsistent", "low", rowCount, colStat.column)>>
    ELSE <<>>

AnalyzeDataQuality(table) ==
    LET rowCount == CountRows(table)
        columnStats == Map(UsersColumns, LAMBDA c : GetColumnStats(table, c))
    IN [method |-> "analyzeDataQuality", error |-> "",
        issues |-> Flatten(Map(columnStats, LAMBDA s : MissingIssues(rowCount, s)))
                     \o DuplicateIssues(FindDuplicates(table, <<>>, DefaultLimit))
                     \o Flatten(Map(columnStats, LAMBDA s : InconsistentIssues(rowCount, s)))]

InitData ==
    /\ InitRegistry
    /\ backupStorage = <<>>
    /\ adapterCalls = 0
    /\ pg = PgClosed
    /\ instance = NoInstance
    /\ \E table \in UsersTables :
          args = [method |-> "getTables", error |-> "", table |-> table, columns |-> <<>>]
    /\ result = NoCall

\* INSERT INTO users (age) VALUES (age)
InsertRow(age) ==
    /\ args.table[age] < MaxRows
    /\ args' = [method |-> "getTables", error |-> "",
                table |-> [args.table EXCEPT ![age] = @ + 1], columns |-> <<>>]
    /\ result' = NoCall
    /\ UNCHANGED <<registry, backupStorage, adapterCalls, pg, instance>>

AnalyzeDataQualityCall ==
    /\ args' = [args EXCEPT !.method = "analyzeDataQuality", !.columns = <<>>]
    /\ result' = AnalyzeDataQuality(args.table)
    /\ UNCHANGED <<registry, backupStorage, adapterCalls, pg, instance>>

\* the find_duplicates tool: columns || [], limit || 100
FindDuplicatesCall(columns) ==
    /\ args' = [args EXCEPT !.method = "findDuplicates", !.columns = columns]
    /\ result' = FindDuplicates(args.table, columns, DefaultLimit)
    /\ UNCHANGED <<registry, backupStorage, adapterCalls, pg, instance>>

NextData ==
    \/ \E age \in AgeValues : InsertRow(age)
    \/ AnalyzeDataQualityCall
    \/ \E columns \in {<<>>, <<"age">>, <<"id", "age">>} : FindDuplicatesCall(columns)

SpecData == InitData /\ [][NextData]_vars

\* ---- the CallToolRequest handler over the tool handlers and the analyzers ----
\* what a driver says when a call of the adapter fails
AdapterMessages == {"ECONNREFUSED", "syntax error"}

\* the adapter's promise: <<>> resolves, <<m>> rejects with new Error(m)
AdapterOutcomes == {<<>>} \cup {<<m>> : m \in AdapterMessages}

\* how the adapter of this call behaves, method by method
AdapterBehaviours ==
    [connect : AdapterOutcomes, executeQuery : AdapterOutcomes,
     getSchema : AdapterOutcomes, explainQuery : AdapterOutcomes, healthCheck : BOOLEAN]

ToolNames ==
    {"connect_database", "test_connection", "get_schema", "explain_query",
     "analyze_query", "detect_vulnerabilities"}

\* an async function's end: `thrown` is <<>> when it returned and <<m>> when it
\* threw new Error(m); `text` is what it returned, as far as it speaks of
\* failures; `raised` lists the rejections the adapter made on the way
Return(text, raised) == [thrown |-> <<>>, text |-> text, raised |-> raised]

Throw(message, raised) == [thrown |-> <<message>>, text |-> <<>>, raised |-> raised]

\* ConnectionManager.createConnection under handleConnectionTool
ConnectDatabase(adapter) ==
    IF adapter.connect # <<>>
    THEN Throw(adapter.connect[1], adapter.connect)
    ELSE Return(<<"connected">>, <<>>)

\* ConnectionManager.testConnection under handleConnectionTool: the catch
\* block returns false
TestConnection(adapter) ==
    IF adapter.connect # <<>>
    THEN Return(<<"Connection test failed">>, adapter.connect)
    ELSE IF adapter.healthCheck
    THEN Return(<<"Connection test successful">>, <<>>)
    ELSE Return(<<"Connection test failed">>, <<>>)

\* SchemaAnalyzer.getSchema
GetSchema(adapter) ==
    IF adapter.getSchema # <<>>
    THEN Throw(adapter.getSchema[1], adapter.getSchema)
    ELSE Return(<<"schema">>, <<>>)

\* QueryAnalyzer.explainQuery under the explain_query tool
ExplainQuery(engine, adapter) ==
    IF ~SupportsExplain(engine)
    THEN Return(<<"Execution plan not available for this database type">>, <<>>)
    ELSE IF adapter.explainQuery # <<>>
    THEN Throw(adapter.explainQuery[1], adapter.explainQuery)
    ELSE Return(<<"plan">>, <<>>)

\* QueryAnalyzer.analyzeQuery: executeQuery and explainQuery run inside one
\* try block whose catch pushes a warning
AnalyzeQueryTool(engine, adapter) ==
    IF adapter.executeQuery # <<>>
    THEN Return(<<"Query execution failed:", adapter.executeQuery[1]>>, adapter.executeQuery)
    ELSE IF SupportsExplain(engine) /\ adapter.explainQuery # <<>>
    THEN Return(<<"Query execution failed:", adapter.explainQuery[1]>>, adapter.explainQuery)
    ELSE Return(<<>>, <<>>)

\* SecurityAnalyzer.detectVulnerabilities: getSchema, then analyzePermissions
\* (which catches what its own query raises), all inside a try block whose
\* catch is empty
DetectVulnerabilities(adapter) ==
    IF adapter.getSchema # <<>>
    THEN Return(<<>>, adapter.getSchema)
    ELSE Return(<<"unencrypted_connection">>, <<>>)

\* handleConnectionTool, handleQueryAnalysisTool, handleSchemaManagementTool,
\* handleSecurityTool: all but the first look the connection up first
HandleTool(name, found, engine, adapter) ==
    IF name \notin {"connect_database", "test_connection"} /\ ~found
    THEN Throw("Connection not found", <<>>)
    ELSE CASE name = "connect_database" -> ConnectDatabase(adapter)
           [] name = "test_connection" -> TestConnection(adapter)
           [] name = "get_schema" -> GetSchema(adapter)
           [] name = "explain_query" -> ExplainQuery(engine, adapter)
           [] name = "analyze_query" -> AnalyzeQueryTool(engine, adapter)
           [] name = "detect_vulnerabilities" -> DetectVulnerabilities(adapter)

\* the handler's catch: McpError(InternalError, `Tool execution failed: ${message}`)
ToolError(end) ==
    IF end.thrown = <<>> THEN <<>> ELSE <<"Tool execution failed:", end.thrown[1]>>

\* a tools/call request as it arrives: the tool's name, whether the registry
\* has the connection, the engine of the adapter and how the adapter behaves
Requests ==
    [method : ToolNames, error : {""}, found : BOOLEAN, engine : Engines,
     adapter : AdapterBehaviours]

InitHandler ==
    /\ InitRegistry
    /\ backupStorage = <<>>
    /\ adapterCalls = 0
    /\ pg = PgClosed
    /\ instance = NoInstance
    /\ args \in Requests
    /\ result = NoCall

\* one tools/call request, from the request to the response or the McpError
CallToolRequest ==
    /\ result = NoCall
    /\ LET end == HandleTool(args.method, args.found, args.engine, args.adapter) IN
       result' = [method |-> args.method,
                  error |-> IF end.thrown = <<>> THEN "" ELSE "InternalError",
                  message |-> ToolError(end),
                  text |-> end.text,
                  raised |-> end.raised]
    /\ UNCHANGED <<registry, backupStorage, adapterCalls, pg, instance, args>>

NextHandler == CallToolRequest

SpecHandler == InitHandler /\ [][NextHandler]_vars

\* ---- analyzeForeignKeys step by step: the walks of detectCircularReference ----
\* const currentTable = stack.pop()!
Top(stack) == stack[Len(stack)]

Pop(stack) == SubSeq(stack, 1, Len(stack) - 1)

NeverRevisited(visited, currentTable) == FALSE

\* visited.has(currentTable)
Revisited(visited, currentTable) == currentTable \in visited

\* for (const refFk of referencingFks) stack.push(refFk.referencedTable)
ReferencedTables(currentTable, allForeignKeys) ==
    Map(SelectSeq(allForeignKeys, LAMBDA f : f.table = currentTable),
        LAMBDA refFk : refFk.referencedTable)

\* analyzeForeignKeys between two steps: the foreign key of the for loop
\* (index), the locals of the walk in progress, and what the walks before
\* returned
Walking(index, allForeignKeys, circular) ==
    [method |-> "analyzeForeignKeys", error |-> "", pc |-> "walk", index |-> index,
     stack |-> <<allForeignKeys[index].referencedTable>>, visited |-> {},
     circular |-> circular]

\* return { foreignKeys: allForeignKeys, issues }
WalksReturned(allForeignKeys, circular) ==
    [method |-> "analyzeForeignKeys", error |-> "", pc |-> "returned",
     index |-> Len(allForeignKeys), stack |-> <<>>, visited |-> {}, circular |-> circular]

\* the walk of this foreign key returns: the for loop goes on or ends
WalkReturns(value) ==
    LET allForeignKeys == AllForeignKeys(args.foreignKeys)
        circular == Append(result.circular, value)
    IN IF result.index < Len(allForeignKeys)
       THEN Walking(result.index + 1, allForeignKeys, circular)
       ELSE WalksReturned(allForeignKeys, circular)

\* the database gets one more foreign key before the schema is fetched
SchemaForeignKey(table, referencedTable) ==
    /\ result = NoCall
    /\ AddForeignKey(table, referencedTable, <<"CASCADE">>)

\* analyzeForeignKeys has the schema and enters the for loop
AnalyzeForeignKeysStart ==
    /\ result = NoCall
    /\ args' = [args EXCEPT !.method = "analyzeForeignKeys"]
    /\ LET allForeignKeys == AllForeignKeys(args.foreignKeys) IN
       result' = IF allForeignKeys = <<>>
                 THEN WalksReturned(allForeignKeys, <<>>)
                 ELSE Walking(1, allForeignKeys, <<>>)
    /\ UNCHANGED <<registry, backupStorage, adapterCalls, pg, instance>>

\* one turn of the while loop
WalkStep ==
    /\ result.method = "analyzeForeignKeys"
    /\ result.pc = "walk"
    /\ result.stack # <<>>
    /\ LET currentTable == Top(result.stack) IN
       result' = IF Revisited(result.visited, currentTable)
                 THEN WalkReturns(TRUE)
                 ELSE [result EXCEPT
                          !.stack = Pop(@) \o ReferencedTables(currentTable,
                                                               AllForeignKeys(args.foreignKeys)),
                          !.visited = @ \cup {currentTable}]
    /\ UNCHANGED <<registry, backupStorage, adapterCalls, pg, instance, args>>

\* the while loop ends on the empty stack: return false
WalkEnd ==
    /\ result.method = "analyzeForeignKeys"
    /\ result.pc = "walk"
    /\ result.stack = <<>>
    /\ result' = WalkReturns(FALSE)
    /\ UNCHANGED <<registry, backupStorage, adapterCalls, pg, instance, args>>

NextWalk ==
    \/ \E table \in Range(SchemaTables), referencedTable \in Range(SchemaTables) :
          SchemaForeignKey(table, referencedTable)
    \/ AnalyzeForeignKeysStart
    \/ WalkStep
    \/ WalkEnd

\* the loops are synchronous code: a turn that can run does run
SpecWalk == InitFk /\ [][NextWalk]_vars /\ WF_vars(WalkStep) /\ WF_vars(WalkEnd)

\* ---- properties of the connection registry ----

\* task t is suspended in disconnect(id) and this step settles that call
DisconnectSettles(t, id) ==
    \/ /\ tasks[t].op \in {"disconnect", "cleanupIdleConnections"}
       /\ tasks[t].pc = "disconnect"
       /\ tasks[t].id = id
       /\ tasks'[t] # tasks[t]
    \/ /\ tasks[t].op = "disconnectAll"
       /\ \E p \in tasks[t].pending \ tasks'[t].pending : p[1] = id

\* this step settles the createConnection of task t
CreateSettles(t) ==
    /\ tasks[t].op = "createConnection"
    /\ tasks'[t].op = "idle"

\* C1: in a sequence of calls, the id returned by a successful createConnection
\* is registered with the adapter that call connected; a registered id keeps
\* that one adapter in every step; an id enters the registry only by a
\* successful createConnection and leaves it only when a disconnect(id) of it
\* settles; after a successful disconnect(id) the id is absent, and
\* getConnection of an absent id returns null.
C1_OneAdapterPerIdUntilDisconnect ==
    [][ /\ \A t \in Tasks : (CreateSettles(t) /\ event'.error = "") =>
              /\ event' = Returned("createConnection", tasks[t].id)
              /\ Has(connections', tasks[t].id)
              /\ connections'[tasks[t].id].adapter = tasks[t].adapter
              /\ adapters'[tasks[t].adapter].state = "connected"
        /\ \A id \in Ids \cap DOMAIN connections' :
              connections'[id].adapter = connections[id].adapter
        /\ \A id \in (DOMAIN connections') \ Ids :
              \E t \in Tasks : CreateSettles(t) /\ tasks[t].id = id /\ event'.error = ""
        /\ \A id \in Ids \ DOMAIN connections' :
              \E t \in Tasks : DisconnectSettles(t, id)
        /\ \A t \in Tasks :
              (tasks[t].op = "disconnect" /\ event' = Resolved("disconnect")) =>
                  ~Has(connections', tasks[t].id)
        /\ \A id \in KnownIds : (GetConnection(id) /\ ~Has(connections, id)) =>
              event' = Returned("getConnection", Null)
      ]_vars

\* disconnect(id) of a connection made with a generated id has just resolved
C1_Witness ==
    /\ event = Resolved("disconnect")
    /\ uuids > 0
    /\ Ids = {}

\* C2: createConnection with a caller-supplied id that is in the registry
\* throws the duplicate error, constructs and connects no adapter, starts no
\* asynchronous work and leaves the registry as it was.
C2_DuplicateIdRejected ==
    [][ \A t \in Tasks, cfg \in Configs :
          (CreateStart(t, cfg) /\ cfg.id # 0 /\ cfg.id \in Ids) =>
              /\ event' = Threw("createConnection", "already exists")
              /\ UNCHANGED <<connections, order, adapters, tasks>>
      ]_vars

\* the last call was rejected as a duplicate of a registered id
C2_Witness ==
    /\ event = Threw("createConnection", "already exists")
    /\ Ids # {}

\* C3: every adapter that createConnection has connected is the adapter the
\* registry holds under the id it was created for (so one connected adapter
\* per id, none overwritten, none outside the registry).
C3_ConnectedAdaptersRegistered ==
    \A a \in DOMAIN adapters :
        (adapters[a].origin = "create" /\ adapters[a].state = "connected") =>
            /\ Has(connections, adapters[a].forId)
            /\ connections[adapters[a].forId].adapter = a

\* C4: disconnectAll calls adapter.disconnect() of every registered entry
\* before it awaits anything, so no rejection can prevent a call; and each
\* entry whose disconnect() resolves is deleted, also after another entry's
\* rejection has already made disconnectAll fail.
C4_DisconnectAllReachesEveryEntry ==
    [][ \A t \in Tasks :
          /\ (tasks[t].op = "idle" /\ tasks'[t].op = "disconnectAll") =>
                \A id \in Ids :
                    /\ <<id, connections[id].adapter>> \in tasks'[t].pending
                    /\ adapters'[connections[id].adapter].disconnecting
                           = adapters[connections[id].adapter].disconnecting + 1
          /\ (AllIdle /\ event' = Resolved("disconnectAll")) => Ids = {}
          /\ \A p \in tasks[t].pending :
                DisconnectAllEntryOk(t, p) => ~Has(connections', p[1])
      ]_vars

\* disconnectAll has already failed on one entry while the disconnect() it
\* called on another entry is still in flight
C4_Witness ==
    \E t \in Tasks :
        /\ tasks[t].op = "disconnectAll"
        /\ tasks[t].failed
        /\ tasks[t].pending # {}
        /\ \A p \in tasks[t].pending : adapters[p[2]].disconnecting >= 1

\* C5: neither disconnectAll nor cleanupIdleConnections ever settles with an
\* error.
C5_TeardownNeverThrows ==
    [][ event'.call \in {"disconnectAll", "cleanupIdleConnections"} => event'.error = "" ]_vars

\* C6: no segment of testConnection throws or touches the registry; it
\* settles with a boolean, and when it settles after having constructed an
\* adapter (and so called connect on it) a disconnect() of that adapter has
\* been called and is the call being settled.
C6_TestConnectionCleansUp ==
    [][ /\ event'.call = "testConnection" =>
              /\ event' = ReturnedBool("testConnection", event'.bool)
              /\ UNCHANGED <<connections, order>>
        /\ \A t \in Tasks :
              (tasks[t].op = "testConnection" \/ tasks'[t].op = "testConnection") =>
                  /\ event'.error = ""
                  /\ UNCHANGED <<connections, order>>
                  /\ tasks[t].op = "idle" =>
                        adapters'[tasks'[t].adapter].connectCalls = 1
                  /\ tasks'[t].op = "idle" =>
                        /\ event'.call = "testConnection"
                        /\ adapters[tasks[t].adapter].connectCalls = 1
                        /\ adapters[tasks[t].adapter].disconnecting >= 1
      ]_vars

\* connect() of the throwaway adapter has failed and testConnection is
\* awaiting the disconnect() it called in its catch block
C6_Witness ==
    \E t \in Tasks :
        /\ tasks[t].op = "testConnection"
        /\ tasks[t].pc = "catch"
        /\ adapters[tasks[t].adapter].state = "failed"
        /\ adapters[tasks[t].adapter].disconnecting = 1
        /\ Ids # {}

\* a step that leaves everything but lastUsed timestamps and the result alone
ReadFrame ==
    /\ DOMAIN connections' = Ids
    /\ \A k \in Ids :
          /\ connections'[k].adapter = connections[k].adapter
          /\ connections'[k].type = connections[k].type
          /\ connections'[k].status = connections[k].status
          /\ connections'[k].connectedAt = connections[k].connectedAt
    /\ UNCHANGED <<order, connectionTimeout, adapters, tasks, uuids>>

\* C7: getConnection(id) returns the registered adapter and sets only that
\* entry's lastUsed (to the current time), or returns null and changes nothing
\* when id is unknown; listConnections and getConnectionInfo change nothing.
C7_ReadsOnlyTouchLastUsed ==
    [][ /\ \A id \in KnownIds : GetConnection(id) =>
              /\ ReadFrame
              /\ \A k \in Ids \ {id} : connections'[k].lastUsed = connections[k].lastUsed
              /\ IF Has(connections, id)
                 THEN /\ connections'[id].lastUsed = now
                      /\ event' = Returned("getConnection", connections[id].adapter)
                 ELSE /\ connections' = connections
                      /\ event' = Returned("getConnection", Null)
        /\ event'.call \in {"listConnections", "getConnectionInfo"} =>
              /\ ReadFrame
              /\ connections' = connections
      ]_vars

\* getConnection has just returned the adapter of an entry and moved its
\* lastUsed past its connectedAt, next to another entry it left alone
C7_Witness ==
    /\ event.call = "getConnection"
    /\ \E id \in Ids :
          /\ event.ret = connections[id].adapter
          /\ connections[id].lastUsed > connections[id].connectedAt
    /\ \E id \in Ids : connections[id].lastUsed < now

\* C8: the threshold starts at 300000 ms; when a sweep that ran alone settles,
\* every entry that was idle for at most the threshold when the sweep began is
\* still registered with its adapter, every entry idle for longer whose
\* disconnect() resolved is gone, and a sweep that settles at once found no
\* entry idle for longer than the threshold.
C8_SweepRemovesOnlyIdleEntries ==
    /\ connectionTimeout = 300000
    /\ [][ \A t \in Tasks :
             /\ (tasks[t].op = "cleanupIdleConnections" /\ tasks'[t].op = "idle") =>
                   LET snap == tasks[t].snap
                       ok == tasks[t].okIds \cup
                                (IF CleanupDisconnectOk(t) THEN {tasks[t].id} ELSE {})
                   IN \A id \in DOMAIN snap :
                         IF IdleTime(snap[id], tasks[t].scanNow) <= tasks[t].scanTimeout
                         THEN /\ Has(connections', id)
                              /\ connections'[id].adapter = snap[id].adapter
                         ELSE id \in ok => ~Has(connections', id)
             /\ (AllIdle /\ event' = Resolved("cleanupIdleConnections")) =>
                   /\ connections' = connections
                   /\ \A id \in Ids : now - connections[id].lastUsed <= connectionTimeout
         ]_vars

\* a sweep is disconnecting an entry idle for longer than the threshold and
\* has passed over an entry that was not
C8_Witness ==
    \E t \in Tasks :
        /\ tasks[t].op = "cleanupIdleConnections"
        /\ tasks[t].pc = "disconnect"
        /\ tasks[t].scanNow - tasks[t].snap[tasks[t].id].lastUsed > tasks[t].scanTimeout
        /\ \E id \in DOMAIN tasks[t].snap :
              tasks[t].scanNow - tasks[t].snap[id].lastUsed <= tasks[t].scanTimeout

\* C9: a sweep never calls disconnect(id) on an entry that getConnection has
\* refreshed, since the sweep's scan, to within the idle threshold.
C9_RefreshedEntryNotSwept ==
    [][ \A t \in Tasks :
          (/\ tasks'[t].op = "cleanupIdleConnections"
           /\ tasks'[t].pc = "disconnect"
           /\ tasks'[t] # tasks[t]) =>
              LET id == tasks'[t].id
                  was == tasks'[t].snap[id]
                  entry == connections'[id]
              IN ~ /\ entry.adapter = was.adapter
                   /\ entry.lastUsed > was.lastUsed
                   /\ now' - entry.lastUsed <= connectionTimeout'
      ]_vars

\* C10: createConnection calls connect() once on the adapter it constructs and
\* settles on the first outcome; when connect() fails the call throws that
\* error, changes no registry entry, and the attempted id is not registered.
C10_ConnectNotRetried ==
    /\ [](\A a \in DOMAIN adapters : adapters[a].connectCalls = 1)
    /\ [][ \A t \in Tasks :
             /\ (tasks[t].op = "idle" /\ tasks'[t].op = "createConnection") =>
                   /\ adapters'[tasks'[t].adapter].state = "connecting"
                   /\ ~Has(connections, tasks'[t].id)
             /\ (CreateSettles(t) /\ event'.error # "") =>
                   /\ event' = Threw("createConnection", "connect")
                   /\ UNCHANGED <<connections, order>>
                   /\ ~Has(connections', tasks[t].id)
                   /\ \A id \in Ids : connections[id].adapter # tasks[t].adapter
         ]_vars

\* a createConnection has just failed in connect() while another connection
\* is registered
C10_Witness ==
    /\ event = Threw("createConnection", "connect")
    /\ Ids # {}
    /\ AllIdle

\* ---- properties of the tool handlers ----
\* the step is a call of a connection-scoped tool with this connectionId
ScopedToolCall(connectionId) ==
    \/ DisconnectDatabase(connectionId)
    \/ \E h \in AnalyzerHandlers, failed \in BOOLEAN :
          HandleAnalyzerTool(h, connectionId, failed)
    \/ CreateBackup(connectionId)
    \/ ListBackups(connectionId)
    \/ \E b \in BackupIds : RestoreBackup(connectionId, b)

\* C11: a connection-scoped tool called with an id that is not registered
\* fails with the connection-not-found error, calls no adapter operation and
\* leaves the registry as it was.
C11_UnknownIdRejected ==
    [][ \A id \in KnownIds :
          (ScopedToolCall(id) /\ ~Has(connections, id)) =>
              /\ event'.error = "not found"
              /\ UNCHANGED <<connections, order, adapters, adapterCalls>>
      ]_vars

\* ---- properties of the adapters ----
\* C12: an adapter never has two transactions open; a beginTransaction made
\* while one is open fails; and the client of an open transaction stays the
\* adapter's client until a commit or rollback ends that transaction.
C12_OneOpenTransaction ==
    /\ [](Cardinality(OpenTransactions) <= 1)
    /\ [][ /\ \A c \in Callers :
                (BeginTransaction(c) /\ OpenTransactions # {}) => result'.error # ""
           /\ (pg.client # Null /\ pg.client \in OpenTransactions) =>
                \/ pg'.client = pg.client
                \/ pg.client \notin DOMAIN pg'.sessions
         ]_vars

\* C13: explainQuery of an adapter whose capabilities say supportsExplain =
\* false returns null for every statement and never throws.
C13_NoExplainMeansNull ==
    (result.method = "adapter.explainQuery" /\ ~SupportsExplain(args.engine)) =>
        /\ result.error = ""
        /\ result.plan = NullPlan

\* ---- properties of generateMigration ----
Unquote(quoted) == quoted[2]

ExecutableKinds == {"CREATE TABLE", "DROP TABLE IF EXISTS", "ADD COLUMN", "DROP COLUMN"}

IsComment(st) == st.kind \notin ExecutableKinds

TableIndex(schema, name) == CHOOSE i \in DOMAIN schema : schema[i].name = name

HasTable(schema, name) == \E i \in DOMAIN schema : schema[i].name = name

\* the column a definition declares
ParseDefinition(definition) ==
    [type |-> definition[1], nullable |-> Len(definition) = 1]

\* what running one statement does to a schema
ApplyStatement(schema, st) ==
    CASE st.kind = "CREATE TABLE" ->
            IF HasTable(schema, Unquote(st.table)) THEN schema
            ELSE Append(schema,
                    [name |-> Unquote(st.table),
                     columns |-> Map(st.columns, Unquote),
                     primaryKey |-> Map(st.primaryKey, Unquote),
                     indexes |-> Map(st.indexes,
                                     LAMBDA index : [name |-> Unquote(index.name),
                                                     columns |-> Map(index.columns, Unquote),
                                                     unique |-> FALSE]),
                     types |-> [c \in {Unquote(st.columns[i]) : i \in DOMAIN st.columns} |->
                                  ParseDefinition(
                                      st.definitions[CHOOSE i \in DOMAIN st.columns :
                                                        Unquote(st.columns[i]) = c])]])
      [] st.kind = "DROP TABLE IF EXISTS" ->
            SelectSeq(schema, LAMBDA t : t.name # Unquote(st.table))
      [] st.kind = "ADD COLUMN" ->
            IF ~HasTable(schema, Unquote(st.table)) THEN schema
            ELSE [schema EXCEPT ![TableIndex(schema, Unquote(st.table))] =
                                    WithColumn(@, Unquote(st.column),
                                               ParseDefinition(st.definitions[1]))]
      [] st.kind = "DROP COLUMN" ->
            IF ~HasTable(schema, Unquote(st.table)) THEN schema
            ELSE [schema EXCEPT ![TableIndex(schema, Unquote(st.table))] =
                                    WithoutColumn(@, Unquote(st.column))]
      [] OTHER -> schema

RECURSIVE ApplyAll(_, _)
ApplyAll(schema, statements) ==
    IF statements = <<>> THEN schema
    ELSE ApplyAll(ApplyStatement(schema, Head(statements)), Tail(statements))

\* a table as far as structure goes: the order of its indexes does not count
Structure(table) ==
    [name |-> table.name, columns |-> table.columns, primaryKey |-> table.primaryKey,
     indexes |-> Range(table.indexes)]

\* the columns of a table that a comment of the reverse statements gives up
FlaggedColumns(table, down) ==
    {c \in Range(table.columns) : \E k \in DOMAIN down : IsComment(down[k]) /\ down[k].column = c}

\* a comment of the reverse statements that speaks of the table
FlaggedTable(name, down) ==
    \E k \in DOMAIN down :
        IsComment(down[k]) /\ down[k].table = EscapeIdentifier(name)

RECURSIVE WithoutColumns(_, _)
WithoutColumns(table, cs) ==
    IF cs = {} THEN table
    ELSE LET c == CHOOSE c \in cs : TRUE IN WithoutColumns(WithoutColumn(table, c), cs \ {c})

\* C14: running the forward statements on S and then the reverse statements
\* gives back the tables of S, each with its structure, apart from the
\* columns and tables that the reverse statements flag as lost.
C14_MigrationRoundTrip ==
    result.method = "generateMigration" =>
        LET S == args.sourceSchema
            back == ApplyAll(ApplyAll(S, result.up), result.down)
        IN /\ {back[i].name : i \in DOMAIN back} \subseteq {S[i].name : i \in DOMAIN S}
           /\ \A i \in DOMAIN S :
                 \/ FlaggedTable(S[i].name, result.down)
                 \/ /\ HasTable(back, S[i].name)
                    /\ Structure(back[TableIndex(back, S[i].name)])
                          = Structure(WithoutColumns(S[i], FlaggedColumns(S[i], result.down)))

\* the place of a forward entry in the order of discovery: new tables in the
\* target's order, then dropped tables in the source's order, then table by
\* table in the target's order the added columns and the dropped columns
ColumnIndex(columns, c) == CHOOSE i \in DOMAIN columns : columns[i] = c

DiscoveryRank(st, S, T) ==
    LET name == Unquote(st.table) IN
    CASE st.kind = "CREATE TABLE" -> 1000 + 100 * TableIndex(T, name)
      [] st.kind = "DROP TABLE IF EXISTS" -> 2000 + 100 * TableIndex(S, name)
      [] st.kind = "ADD COLUMN" ->
            3000 + 100 * TableIndex(T, name)
                 + ColumnIndex(T[TableIndex(T, name)].columns, Unquote(st.column))
      [] st.kind = "DROP COLUMN" ->
            3000 + 100 * TableIndex(T, name) + 10
                 + ColumnIndex(S[TableIndex(S, name)].columns, Unquote(st.column))
      [] OTHER -> 0

\* the forward entry states a difference that exists between S and T
IsChange(st, S, T) ==
    LET name == Unquote(st.table) IN
    CASE st.kind = "CREATE TABLE" -> HasTable(T, name) /\ ~HasTable(S, name)
      [] st.kind = "DROP TABLE IF EXISTS" -> HasTable(S, name) /\ ~HasTable(T, name)
      [] st.kind = "ADD COLUMN" ->
            /\ HasTable(S, name) /\ HasTable(T, name)
            /\ Unquote(st.column) \in Range(T[TableIndex(T, name)].columns)
            /\ Unquote(st.column) \notin Range(S[TableIndex(S, name)].columns)
      [] st.kind = "DROP COLUMN" ->
            /\ HasTable(S, name) /\ HasTable(T, name)
            /\ Unquote(st.column) \in Range(S[TableIndex(S, name)].columns)
            /\ Unquote(st.column) \notin Range(T[TableIndex(T, name)].columns)
      [] OTHER -> FALSE

\* the number of differences: tables on one side only, and columns on one
\* side only of a table that is on both sides
CountChanges(S, T) ==
    LET SN == {S[i].name : i \in DOMAIN S}
        TN == {T[i].name : i \in DOMAIN T}
        Cols(schema, n) == Range(schema[TableIndex(schema, n)].columns)
    IN Cardinality((SN \ TN) \cup (TN \ SN))
         + Cardinality({p \in (SN \cap TN) \X ColumnNames :
                           (p[2] \in Cols(S, p[1])) # (p[2] \in Cols(T, p[1]))})

\* d undoes u, as far as a statement can
IsInverse(u, d) ==
    CASE u.kind = "CREATE TABLE" -> d.kind = "DROP TABLE IF EXISTS" /\ d.table = u.table
      [] u.kind = "DROP TABLE IF EXISTS" -> d.kind = "CREATE TABLE" /\ d.table = u.table
      [] u.kind = "ADD COLUMN" ->
            d.kind = "DROP COLUMN" /\ d.table = u.table /\ d.column = u.column
      [] u.kind = "DROP COLUMN" -> IsComment(d) /\ EscapeIdentifier(d.column) = u.column
      [] OTHER -> FALSE

\* C15: every difference gives one forward and one reverse entry, the forward
\* entries stand in the order of discovery, and the i-th reverse entry undoes
\* the (n+1-i)-th forward entry.
C15_ReverseIsReversal ==
    result.method = "generateMigration" =>
        LET S == args.sourceSchema
            T == args.targetSchema
            n == CountChanges(S, T)
        IN /\ Len(result.up) = n
           /\ Len(result.down) = n
           /\ \A i \in 1..Len(result.up) : IsChange(result.up[i], S, T)
           /\ \A i \in 1..(Len(result.up) - 1) :
                 DiscoveryRank(result.up[i], S, T) < DiscoveryRank(result.up[i + 1], S, T)
           /\ \A i \in 1..Len(result.down) :
                 Len(result.up) = Len(result.down)
                    => IsInverse(result.up[Len(result.up) + 1 - i], result.down[i])

\* a migration of two differences of different kinds
C15_Witness ==
    /\ result.method = "generateMigration"
    /\ Len(result.up) = 2
    /\ result.up[1].kind = "ADD COLUMN"
    /\ result.up[2].kind = "DROP COLUMN"
    /\ IsComment(result.down[1])

\* C16: for every table that only the source has, the forward statements
\* drop it and the reverse statements recreate it and carry a comment saying
\* that the table's data cannot be recovered.
C16_DroppedTableFlagged ==
    result.method = "generateMigration" =>
        \A i \in DOMAIN args.sourceSchema :
            LET name == args.sourceSchema[i].name IN
            ~HasTable(args.targetSchema, name) =>
                /\ \E k \in DOMAIN result.up : result.up[k] = DropTableStatement(args.sourceSchema[i])
                /\ \E k \in DOMAIN result.down :
                      /\ result.down[k].kind = "CREATE TABLE"
                      /\ result.down[k].table = EscapeIdentifier(name)
                /\ FlaggedTable(name, result.down)

\* ---- properties of analyzeForeignKeys ----
\* the directed graph of the foreign keys: an edge from the owning table to
\* the referenced table
Edges(foreignKeys) ==
    {<<foreignKeys[i].table, foreignKeys[i].referencedTable>> : i \in DOMAIN foreignKeys}

RECURSIVE Closure(_)
Closure(R) ==
    LET joined == R \cup {pq \in Range(SchemaTables) \X Range(SchemaTables) :
                             \E m \in Range(SchemaTables) : <<pq[1], m>> \in R /\ <<m, pq[2]>> \in R}
    IN IF joined = R THEN R ELSE Closure(joined)

HasCycle(foreignKeys) ==
    \E t \in Range(SchemaTables) : <<t, t>> \in Closure(Edges(foreignKeys))

\* a chain A -> B -> C: no cycle, and no table owns or receives two keys
IsSimpleChain(foreignKeys) ==
    /\ foreignKeys # <<>>
    /\ ~HasCycle(foreignKeys)
    /\ \A i, j \in DOMAIN foreignKeys :
          i # j => /\ foreignKeys[i].table # foreignKeys[j].table
                   /\ foreignKeys[i].referencedTable # foreignKeys[j].referencedTable

IssuesOfSeverity(severity) ==
    {i \in DOMAIN result.issues : result.issues[i].severity = severity}

Analysed == result.method = "analyzeForeignKeys" /\ result.error = ""

\* C17: when the foreign keys form a directed cycle (a self-reference
\* included) the analysis reports at least one high-severity issue, and for
\* a simple chain it reports none.
C17_CyclesReported ==
    Analysed =>
        /\ HasCycle(result.foreignKeys) => IssuesOfSeverity("high") # {}
        /\ IsSimpleChain(result.foreignKeys) => IssuesOfSeverity("high") = {}

\* the cycle a -> b -> c -> a was analysed and reported
C17_Witness ==
    /\ Analysed
    /\ Edges(result.foreignKeys) = {<<"a", "b">>, <<"b", "c">>, <<"c", "a">>}
    /\ IssuesOfSeverity("high") # {}

\* C18: when the graph of the foreign keys has no cycle (diamonds and
\* parallel keys between the same two tables included) the analysis reports
\* no high-severity cycle issue.
C18_NoFalseCycles ==
    Analysed => (~HasCycle(result.foreignKeys) => IssuesOfSeverity("high") = {})

\* a key lacks an explicit ON DELETE action when its onDelete is not set or
\* holds NO ACTION, the rule of a key declared without an ON DELETE clause
LacksOnDeleteAction(fk) == fk.onDelete \notin (OnDeleteRules \ {<<>>, <<"NO ACTION">>})

MediumIssuesFor(fk) ==
    {i \in IssuesOfSeverity("medium") : result.issues[i].name = fk.name}

TimeLeq(t1, t2) == t1 = <<>> \/ (t2 # <<>> /\ t1[1] <= t2[1])

\* plans in the order of their aggregate cost, no plan first
CostLeq(p1, p2) == p1 = <<>> \/ (p2 # <<>> /\ Reduce(p1[1], 0) <= Reduce(p2[1], 0))

\* C19: the score of every analysis lies in 0..100, and of two analyses the
\* one with the larger elapsed time and the same plan, or with the larger
\* aggregate plan cost and the same elapsed time, has no larger score.
C19_ScoreBoundedMonotone ==
    /\ [](result.method = "analyzeQuery" => result.performanceScore \in 0..100)
    /\ [][(result.method = "analyzeQuery" /\ result'.method = "analyzeQuery") =>
            /\ (result'.plan = result.plan /\ TimeLeq(result.executionTime, result'.executionTime))
                  => result'.performanceScore <= result.performanceScore
            /\ (result'.executionTime = result.executionTime /\ CostLeq(result.plan, result'.plan))
                  => result'.performanceScore <= result.performanceScore]_vars

\* an analysis of a slow query with a costly plan of two operations
C19_Witness ==
    /\ result.method = "analyzeQuery"
    /\ result.executionTime = <<5001>>
    /\ result.plan = <<<<10001, 60>>>>
    /\ result.performanceScore = 20

\* ---- properties of one adapter object ----
EndMethods == {"commitTransaction", "rollbackTransaction"}

C26_TransactionFlagHonest ==
    [][ /\ (/\ CallAdapter("beginTransaction", "valid", "ok")
            /\ SupportsTransactions(instance.engine)
            /\ instance.connected /\ ~instance.inTx)
           => result' = Ok("beginTransaction")
        /\ \A method \in EndMethods :
              (/\ CallAdapter(method, "valid", "ok")
               /\ SupportsTransactions(instance.engine)
               /\ instance.connected
               /\ result = Ok("beginTransaction"))
              => result' = Ok(method)
        /\ \A method \in AdapterMethods :
              (/\ CallAdapter(method, "valid", "ok")
               /\ result'.error = "Transactions not supported by this adapter")
              => ~SupportsTransactions(instance.engine)
      ]_vars

PooledCall(method, outcome) ==
    /\ CallAdapter(method, "valid", outcome)
    /\ instance.engine \in PooledTypes

C29_FailedCreateReleases ==
    (result.method = "createConnection" /\ result.error # "") => instance.open = {}

\* ---- properties of handles under overlapping calls ----
\* C28: getConnection(id) never hands out an adapter on which a disconnect()
\* started by the registry has not settled, or has already succeeded.
C28_HandleIsLive ==
    [][ \A id \in KnownIds :
          (GetConnection(id) /\ Has(connections, id))
             => /\ adapters[connections[id].adapter].disconnecting = 0
                /\ adapters[connections[id].adapter].state = "connected"
                /\ event'.ret = connections[id].adapter
      ]_vars

\* ---- properties of the data analyzer ----
\* the rows whose age is a value that another row has too
RowsSharingAge(table) ==
    LET shared == {v \in AgeValues \ {"NULL"} : table[v] > 1} IN
    (IF "30" \in shared THEN table["30"] ELSE 0) + (IF "40" \in shared THEN table["40"] ELSE 0)

\* C23: findDuplicates without explicit columns on users(id, age) reports as
\* duplicateCount the number of rows that share their age with another row:
\* 3 for three rows of age 30, nothing for a single row of age 40.
C23_DuplicateRowsCounted ==
    (result.method = "findDuplicates" /\ args.columns = <<>>) =>
        result.duplicateCount = RowsSharingAge(args.table)

MissingIssuesFor(column) ==
    {i \in DOMAIN result.issues :
        result.issues[i].type = "missing" /\ result.issues[i].column = column}

\* C24: analyzeDataQuality reports one 'missing' issue for a column exactly
\* when more than half of the rows are NULL in it, of severity high when
\* more than nine tenths are NULL and medium otherwise, and its affectedRows
\* is the number of NULL rows.
C24_MissingIssueThresholds ==
    result.method = "analyzeDataQuality" =>
        \A i \in DOMAIN UsersColumns :
            LET column == UsersColumns[i]
                nulls == CountNulls(args.table, column)
                rows == CountRows(args.table)
            IN IF 2 * nulls > rows
               THEN /\ Cardinality(MissingIssuesFor(column)) = 1
                    /\ \A k \in MissingIssuesFor(column) :
                          /\ result.issues[k].affectedRows = nulls
                          /\ result.issues[k].severity
                                = IF 10 * nulls > 9 * rows THEN "high" ELSE "medium"
               ELSE MissingIssuesFor(column) = {}

\* 100 rows of which 60 have no age: a medium issue on 60 rows
C24_Witness ==
    /\ result.method = "analyzeDataQuality"
    /\ CountRows(args.table) = 100
    /\ args.table["NULL"] = 60
    /\ \E k \in MissingIssuesFor("age") :
          result.issues[k].severity = "medium" /\ result.issues[k].affectedRows = 60

\* the columns of a table by name: each name with its type and nullability
ColumnsByName(table) ==
    [c \in Range(table.columns) |-> table.types[c]]

\* C25: running the forward statements on S gives T as far as tables and
\* columns go: the same table names, and per table the same column names,
\* each column with the type and the nullability it has in T.
C25_ForwardYieldsTarget ==
    result.method = "generateMigration" =>
        LET S == args.sourceSchema
            T == args.targetSchema
            forward == ApplyAll(S, result.up)
        IN /\ {forward[i].name : i \in DOMAIN forward} = {T[i].name : i \in DOMAIN T}
           /\ \A i \in DOMAIN T :
                 HasTable(forward, T[i].name) =>
                     ColumnsByName(forward[TableIndex(forward, T[i].name)]) = ColumnsByName(T[i])

\* the same with type and nullability left out: names of tables and of columns
ForwardYieldsNames ==
    result.method = "generateMigration" =>
        LET S == args.sourceSchema
            T == args.targetSchema
            forward == ApplyAll(S, result.up)
        IN /\ {forward[i].name : i \in DOMAIN forward} = {T[i].name : i \in DOMAIN T}
           /\ \A i \in DOMAIN T :
                 HasTable(forward, T[i].name) =>
                     Range(forward[TableIndex(forward, T[i].name)].columns) = Range(T[i].columns)

\* C22: when the adapter rejects a call during a tool operation, the caller
\* gets a failure, one only, whose message contains the adapter's message;
\* the rejection is neither dropped nor turned into a successful result.
C22_AdapterFailureReported ==
    (result.method \in ToolNames /\ result.raised # <<>>) =>
        /\ result.error # ""
        /\ result.raised[1] \in Range(result.message)

\* C30: once analyzeForeignKeys has the schema, every walk of
\* detectCircularReference ends and analyzeForeignKeys returns, whatever
\* the foreign keys are: cyclic, self-referencing, multiply connected.
C30_WalkTerminates ==
    (result.method = "analyzeForeignKeys")
        ~> (result.method = "analyzeForeignKeys" /\ result.pc = "returned")

\* returned on foreign keys with a self-reference and, besides, a cycle
\* through two tables or two foreign keys from one table to the same table,
\* each walk with the answer of detectCircularReference
C30_Witness ==
    /\ result.method = "analyzeForeignKeys"
    /\ result.pc = "returned"
    /\ LET allForeignKeys == AllForeignKeys(args.foreignKeys) IN
       /\ Len(allForeignKeys) = MaxFks
       /\ result.circular
            = Map(allForeignKeys, LAMBDA fk : DetectCircularReference(fk, allForeignKeys))
       /\ \E i \in DOMAIN allForeignKeys :
             allForeignKeys[i].table = allForeignKeys[i].referencedTable
       /\ \E i, j \in DOMAIN allForeignKeys :
             /\ i # j
             /\ \/ /\ allForeignKeys[i].table = allForeignKeys[j].referencedTable
                   /\ allForeignKeys[j].table = allForeignKeys[i].referencedTable
                \/ /\ allForeignKeys[i].table = allForeignKeys[j].table
                   /\ allForeignKeys[i].referencedTable = allForeignKeys[j].referencedTable

====
